---- MODULE Spec2Model ----
(***************************************************************************)
(* A model of wsh, an interactive shell: the line editor of                *)
(* Shell::run_interactive / Shell::read_input (src/src/shell.rs), its      *)
(* history, its tab completion, and the tokenizer of src/src/utils.rs.     *)
(*                                                                         *)
(* A Rust String is modelled as what it is, a sequence of UTF-8 bytes      *)
(* (integers 0..255); cursor_pos, completion_start_pos and every index are *)
(* 0-based byte offsets as in the code.  Option<usize> is <<>> for None    *)
(* and <<i>> for Some(i).                                                  *)
(***************************************************************************)
EXTENDS Integers, Sequences, FiniteSets, TLC

VARIABLES
    pc,                 \* where run_interactive is
    raw_mode,           \* TRUE while the terminal is in raw mode
    pending,            \* the command read_input returned, until it is executed
    history,            \* Shell.history, oldest first
    current_input,      \* Shell.current_input
    cursor_pos,         \* Shell.cursor_pos
    history_index,      \* Shell.history_index
    completions,        \* Shell.completions
    completion_index,   \* Shell.completion_index
    completion_prefix,  \* Shell.completion_prefix
    original_input_before_completion,
    completion_start_pos,
    aliases,            \* Shell.config.aliases, a function name -> command
    cwd,                \* the process's working directory (a component list)
    config,             \* Shell.config: its prompt and enable_colors
    env_PATH,           \* std::env::var("PATH"): None when it is not set
    calls,              \* history variable: every command passed to add_to_history
    lastKey,            \* history variable: the key whose handler ran last
    tabRun,             \* history variable: Tab presses in a row since a session began
    tabFirst,           \* history variable: buffer and cursor at the first Tab of that run
    navRun,             \* history variable: Up then Down presses in a row from a fresh line
    arg,                \* the input of a function applied on its own
    ret,                \* what that function returned
    keys                \* history variable: the number of key events handled so far

vars == <<pc, raw_mode, pending, history, current_input, cursor_pos, history_index,
          completions, completion_index, completion_prefix,
          original_input_before_completion, completion_start_pos, aliases, cwd,
          config, env_PATH, calls, lastKey, tabRun, tabFirst, navRun, arg, ret, keys>>

-----------------------------------------------------------------------------
(* Bytes and strings *)

\* The ASCII bytes the model writes strings with.
A == [a |-> 97, b |-> 98, c |-> 99, d |-> 100, e |-> 101, h |-> 104, i |-> 105,
      l |-> 108, n |-> 110, o |-> 111, p |-> 112, r |-> 114, s |-> 115,
      t |-> 116, u |-> 117, w |-> 119, x |-> 120, y |-> 121,
      sp |-> 32, tab |-> 9, dq |-> 34, sq |-> 39, bs |-> 92, slash |-> 47,
      dot |-> 46, tilde |-> 126, colon |-> 58, lf |-> 10, dollar |-> 36,
      lbrace |-> 123, rbrace |-> 125]

\* U+00E9 (e with acute accent) in UTF-8: a lead byte and a continuation byte.
EAcute == <<195, 169>>

None == <<>>
Some(i) == <<i>>

\* A UTF-8 continuation byte, 10xxxxxx.
IsContinuation(b) == b >= 128 /\ b < 192

\* str::is_char_boundary
IsCharBoundary(s, i) ==
    \/ i = 0
    \/ i = Len(s)
    \/ i > 0 /\ i < Len(s) /\ ~IsContinuation(s[i + 1])

\* The byte width of the character whose lead byte is b.
Utf8Width(b) == IF b < 128 THEN 1 ELSE IF b < 224 THEN 2 ELSE IF b < 240 THEN 3 ELSE 4

\* s[a..b] of Rust, as bytes (0-based, b exclusive).
Slice(s, a, b) == SubSeq(s, a + 1, b)

\* String::insert(idx, ch) panics unless idx is a char boundary.
InsertPanics(s, idx) == ~IsCharBoundary(s, idx)
StrInsert(s, idx, ch) == Slice(s, 0, idx) \o ch \o Slice(s, idx, Len(s))

\* String::remove(idx) panics unless a character starts at idx.
RemovePanics(s, idx) == idx >= Len(s) \/ ~IsCharBoundary(s, idx)
StrRemove(s, idx) == Slice(s, 0, idx) \o Slice(s, idx + Utf8Width(s[idx + 1]), Len(s))

\* String::replace_range(a..b, r) panics unless a and b are char boundaries.
ReplaceRangePanics(s, a, b) == ~IsCharBoundary(s, a) \/ ~IsCharBoundary(s, b)
ReplaceRange(s, a, b, r) == Slice(s, 0, a) \o r \o Slice(s, b, Len(s))

\* str::starts_with
StartsWith(s, p) == Len(p) <= Len(s) /\ SubSeq(s, 1, Len(p)) = p

\* str::ends_with(char)
EndsWithByte(s, b) == Len(s) > 0 /\ s[Len(s)] = b

\* usize::saturating_sub
SaturatingSub(x, y) == IF x >= y THEN x - y ELSE 0

\* The characters with the Unicode property White_Space, in UTF-8: U+0009
\* to U+000D, U+0020, U+0085, U+00A0, U+1680, U+2000 to U+200A, U+2028,
\* U+2029, U+202F, U+205F and U+3000.
WhiteSpace ==
    { <<b>> : b \in {9, 10, 11, 12, 13, 32} }
    \cup { <<194, 133>>, <<194, 160>>, <<225, 154, 128>> }
    \cup { <<226, 128, b>> : b \in (128 .. 138) \cup {168, 169, 175} }
    \cup { <<226, 129, 159>>, <<227, 128, 128>> }

\* char::is_whitespace on the character ch, a sequence of bytes
IsWhitespace(ch) == ch \in WhiteSpace

\* str::ends_with
EndsWith(s, p) == Len(p) <= Len(s) /\ SubSeq(s, Len(s) - Len(p) + 1, Len(s)) = p

\* str::trim_start: the characters are taken off one by one; no encoding
\* of a character begins another.
RECURSIVE TrimStart(_)
TrimStart(s) ==
    IF \E w \in WhiteSpace : StartsWith(s, w)
    THEN TrimStart(SubSeq(s, Len(CHOOSE w \in WhiteSpace : StartsWith(s, w)) + 1, Len(s)))
    ELSE s

\* str::trim_end
RECURSIVE TrimEnd(_)
TrimEnd(s) ==
    IF \E w \in WhiteSpace : EndsWith(s, w)
    THEN TrimEnd(SubSeq(s, 1, Len(s) - Len(CHOOSE w \in WhiteSpace : EndsWith(s, w))))
    ELSE s

\* str::trim
Trim(s) == TrimEnd(TrimStart(s))

\* Ord for String: s < t, lexicographic on bytes.
StrLess(s, t) ==
    \E k \in 1..Len(t) :
        /\ k <= Len(s) + 1
        /\ SubSeq(s, 1, k - 1) = SubSeq(t, 1, k - 1)
        /\ (k = Len(s) + 1 \/ s[k] < t[k])

RECURSIVE InsertSorted(_, _)
InsertSorted(sorted, x) ==
    IF sorted = <<>> THEN <<x>>
    ELSE IF StrLess(x, Head(sorted)) THEN <<x>> \o sorted
    ELSE <<Head(sorted)>> \o InsertSorted(Tail(sorted), x)

\* Vec<String>::sort
RECURSIVE SortStrings(_)
SortStrings(v) ==
    IF v = <<>> THEN <<>> ELSE InsertSorted(SortStrings(SubSeq(v, 1, Len(v) - 1)), v[Len(v)])

\* Vec::dedup: drops an element equal to the one before it.
RECURSIVE Dedup(_)
Dedup(v) ==
    IF Len(v) <= 1 THEN v
    ELSE IF v[Len(v)] = v[Len(v) - 1] THEN Dedup(SubSeq(v, 1, Len(v) - 1))
    ELSE Append(Dedup(SubSeq(v, 1, Len(v) - 1)), v[Len(v)])

\* The elements of a finite set of strings as a sequence, in ascending order:
\* an iteration order for the collections whose order the code does not fix
\* (a HashMap's keys, a directory's entries).
SetToSeq(S) ==
    [k \in 1..Cardinality(S) |->
        CHOOSE x \in S : Cardinality({ y \in S : StrLess(y, x) }) = k - 1]

-----------------------------------------------------------------------------
(* Utils::parse_command *)

\* One iteration of the loop as it would be if either quote character closed
\* a quotation.
ParseStep_AnyQuoteCloses(st, ch) ==
    IF st.escape_next
    THEN [st EXCEPT !.current_token = Append(@, ch), !.escape_next = FALSE]
    ELSE IF ch = A.bs
    THEN [st EXCEPT !.escape_next = TRUE]
    ELSE IF ch \in {A.dq, A.sq} /\ ~st.in_quotes
    THEN [st EXCEPT !.in_quotes = TRUE, !.quote_char = ch]
    ELSE IF st.in_quotes /\ ch \in {A.dq, A.sq}
    THEN [st EXCEPT !.in_quotes = FALSE]
    ELSE IF ch \in {A.sp, A.tab} /\ ~st.in_quotes
    THEN IF st.current_token # <<>>
         THEN [st EXCEPT !.tokens = Append(@, st.current_token), !.current_token = <<>>]
         ELSE st
    ELSE [st EXCEPT !.current_token = Append(@, ch)]

\* One iteration of the loop of parse_command: the character ch in state st.
\* The code iterates characters; the bytes of a multi-byte character are
\* none of the ASCII characters the loop tests for and are pushed in order,
\* so iterating bytes gives the same tokens.
ParseStep(st, ch) ==
    IF st.escape_next
    THEN [st EXCEPT !.current_token = Append(@, ch), !.escape_next = FALSE]
    ELSE IF ch = A.bs
    THEN [st EXCEPT !.escape_next = TRUE]
    ELSE IF ch \in {A.dq, A.sq} /\ ~st.in_quotes
    THEN [st EXCEPT !.in_quotes = TRUE, !.quote_char = ch]
    ELSE IF st.in_quotes /\ ch = st.quote_char
    THEN [st EXCEPT !.in_quotes = FALSE]
    ELSE IF ch \in {A.sp, A.tab} /\ ~st.in_quotes
    THEN IF st.current_token # <<>>
         THEN [st EXCEPT !.tokens = Append(@, st.current_token), !.current_token = <<>>]
         ELSE st
    ELSE [st EXCEPT !.current_token = Append(@, ch)]

\* The loop of parse_command from byte i on.
RECURSIVE ParseLoop(_, _, _)
ParseLoop(input, i, st) ==
    IF i > Len(input) THEN st ELSE ParseLoop(input, i + 1, ParseStep(st, input[i]))

\* The end of parse_command: the last token is pushed if it is not empty.
ParseEnd(st) ==
    IF st.current_token # <<>> THEN Append(st.tokens, st.current_token) ELSE st.tokens

parse_command(input) ==
    ParseEnd(ParseLoop(input, 1,
                 [tokens |-> <<>>, current_token |-> <<>>, in_quotes |-> FALSE,
                  quote_char |-> A.dq, escape_next |-> FALSE]))

-----------------------------------------------------------------------------
(* The environment: a file system, HOME and PATH *)

\* Every file and directory below the root, by its list of path components.
FsTree ==
    { [path |-> << <<A.h>> >>,                     kind |-> "dir",  exec |-> TRUE],
      [path |-> << <<A.h>>, <<A.dot, A.b>> >>,     kind |-> "file", exec |-> FALSE],
      [path |-> << <<A.h>>, <<A.n>> >>,            kind |-> "file", exec |-> FALSE],
      [path |-> << <<A.h>>, <<A.s>> >>,            kind |-> "dir",  exec |-> TRUE],
      [path |-> << <<A.b>> >>,                     kind |-> "dir",  exec |-> TRUE],
      [path |-> << <<A.b>>, <<A.c, A.a, A.t>> >>,  kind |-> "file", exec |-> TRUE],
      [path |-> << <<A.b>>, <<A.c, A.o>> >>,       kind |-> "file", exec |-> FALSE],
      [path |-> << <<A.u>> >>,                     kind |-> "dir",  exec |-> TRUE],
      [path |-> << <<A.u>>, <<A.c, A.a, A.t>> >>,  kind |-> "file", exec |-> TRUE],
      [path |-> << <<A.u>>, <<A.c, A.s>> >>,       kind |-> "dir",  exec |-> TRUE] }

\* $HOME, and the directory the shell is started in.
HomeVar == Some(<<A.slash, A.h>>)
StartDir == << <<A.h>> >>

\* $PATH, split at ':'.  The last directory does not exist.
PathDirs == << <<A.slash, A.b>>, <<A.slash, A.u>>, <<A.slash, A.x>> >>

IsDir(path) == path = <<>> \/ \E f \in FsTree : f.path = path /\ f.kind = "dir"

\* The pieces of s between '/' separators, as [from, to) byte ranges.
RECURSIVE PiecesFrom(_, _, _)
PiecesFrom(s, i, from) ==
    IF i > Len(s) THEN << [from |-> from, to |-> Len(s)] >>
    ELSE IF s[i] = A.slash
    THEN << [from |-> from, to |-> i - 1] >> \o PiecesFrom(s, i + 1, i)
    ELSE PiecesFrom(s, i + 1, from)

Pieces(s) == PiecesFrom(s, 1, 0)

PieceText(s, p) == Slice(s, p.from, p.to)

\* Where a lookup that has failed stands: no file has an empty component.
NoEntry == << <<>> >>

\* One step of the operating system's path lookup: the piece name, from the
\* place at.  A name or ".." is looked up in a directory only: from a file
\* or a missing name the lookup fails (ENOTDIR, ENOENT) and stays failed.
WalkStep(at, name) ==
    IF name = <<>> \/ name = <<A.dot>> THEN at
    ELSE IF ~IsDir(at) THEN NoEntry
    ELSE IF name = <<A.dot, A.dot>>
    THEN (IF at = <<>> THEN at ELSE SubSeq(at, 1, Len(at) - 1))
    ELSE Append(at, name)

RECURSIVE Walk(_, _, _)
Walk(s, ps, at) ==
    IF ps = <<>> THEN at ELSE Walk(s, Tail(ps), WalkStep(at, PieceText(s, Head(ps))))

DirResult(s, target) == [ok |-> s # <<>> /\ IsDir(target), dir |-> target]

\* The directory the path s names, seen from the directory base; ok is FALSE
\* when there is none.
ResolveDir(base, s) ==
    DirResult(s, Walk(s, Pieces(s), IF StartsWith(s, <<A.slash>>) THEN <<>> ELSE base))

EntriesOf(r) ==
    [ok |-> r.ok,
     entries |-> IF r.ok
                 THEN { f \in FsTree : Len(f.path) = Len(r.dir) + 1
                                       /\ SubSeq(f.path, 1, Len(r.dir)) = r.dir }
                 ELSE {}]

\* std::fs::read_dir: the entries of a directory, or an error.
ReadDir(base, s) == EntriesOf(ResolveDir(base, s))

EntryName(f) == f.path[Len(f.path)]

\* The components std::path::Path sees: empty pieces are dropped, and so is
\* "." unless it starts a relative path.
PathComponents(s) ==
    LET Real(p) == p.to > p.from /\ ~(PieceText(s, p) = <<A.dot>> /\ p.from # 0)
    IN  SelectSeq(Pieces(s), Real)

ParentOf(s, comps) ==
    IF comps = <<>> THEN None
    ELSE IF Len(comps) = 1
    THEN Some(IF StartsWith(s, <<A.slash>>) THEN <<A.slash>> ELSE <<>>)
    ELSE Some(Slice(s, 0, comps[Len(comps) - 1].to))

\* Path::parent, as an Option<String>.
PathParent(s) == ParentOf(s, PathComponents(s))

FileNameOf(last) ==
    IF last = <<A.dot>> \/ last = <<A.dot, A.dot>> THEN None ELSE Some(last)

LastComponent(s, comps) ==
    IF comps = <<>> THEN None ELSE FileNameOf(PieceText(s, comps[Len(comps)]))

\* Path::file_name, as an Option<String>.
PathFileName(s) == LastComponent(s, PathComponents(s))

\* Utils::expand_path
expand_path(path) ==
    IF StartsWith(path, <<A.tilde>>) /\ HomeVar # None
    THEN HomeVar[1] \o Tail(path)
    ELSE path

\* str::replace(from, to) with a non-empty pattern: the matches from left to
\* right, none overlapping another.
RECURSIVE StrReplace(_, _, _)
StrReplace(s, from, to) ==
    IF Len(s) < Len(from) THEN s
    ELSE IF StartsWith(s, from)
    THEN to \o StrReplace(SubSeq(s, Len(from) + 1, Len(s)), from, to)
    ELSE <<Head(s)>> \o StrReplace(Tail(s), from, to)

\* Utils::get_current_dir where the working directory is dir: its
\* components written as an absolute path.
RECURSIVE get_current_dir(_)
get_current_dir(dir) ==
    IF dir = <<>> THEN <<A.slash>>
    ELSE IF Len(dir) = 1 THEN <<A.slash>> \o dir[1]
    ELSE get_current_dir(SubSeq(dir, 1, Len(dir) - 1)) \o <<A.slash>> \o dir[Len(dir)]

\* The display_dir of format_prompt: the home directory at the front of the
\* path is written "~" (replacen(&home, "~", 1) after starts_with(&home)).
DisplayDir(current_dir, home) ==
    IF StartsWith(current_dir, home)
    THEN <<A.tilde>> \o SubSeq(current_dir, Len(home) + 1, Len(current_dir))
    ELSE current_dir

\* Utils::format_prompt where the working directory is dir
format_prompt(config_prompt, dir) ==
    StrReplace(config_prompt, <<A.lbrace, A.c, A.w, A.d, A.rbrace>>,
               DisplayDir(get_current_dir(dir), IF HomeVar # None THEN HomeVar[1] ELSE <<>>))

\* The built-in commands, in the order get_command_completions lists them.
Builtins == << <<A.c, A.d>>, <<A.p, A.w, A.d>>, <<A.e, A.x, A.i, A.t>>,
               <<A.h, A.e, A.l, A.p>>, <<A.a, A.l, A.i, A.a, A.s>>,
               <<A.h, A.i, A.s, A.t, A.o, A.r, A.y>> >>

\* Utils::is_builtin
is_builtin(command) == \E k \in 1..Len(Builtins) : Builtins[k] = command

-----------------------------------------------------------------------------
(* Completion candidates *)

\* The names one PATH directory adds: its executable regular files whose name
\* starts with prefix and was not seen in an earlier directory.
PathNamesIn(path_dir, prefix, seen, dir) ==
    { EntryName(f) : f \in { g \in ReadDir(dir, path_dir).entries :
                               /\ g.kind = "file"
                               /\ StartsWith(EntryName(g), prefix)
                               /\ EntryName(g) \notin seen
                               /\ g.exec } }

\* The PATH loop of get_command_completions over dirs[k..].
RECURSIVE PathScan(_, _, _, _, _)
RECURSIVE PathScanRest(_, _, _, _, _, _)
PathScan(dirs, k, prefix, seen, dir) ==
    IF k > Len(dirs) THEN <<>>
    ELSE PathScanRest(dirs, k, prefix, seen, dir, PathNamesIn(dirs[k], prefix, seen, dir))

PathScanRest(dirs, k, prefix, seen, dir, names) ==
    SetToSeq(names) \o PathScan(dirs, k + 1, prefix, seen \cup names, dir)

\* One iteration of the history loop of get_command_completions.
HistoryPush(acc, prefix, cmd_tokens) ==
    IF /\ cmd_tokens # <<>>
       /\ StartsWith(cmd_tokens[1], prefix)
       /\ \A j \in 1..Len(acc) : acc[j] # cmd_tokens[1]
    THEN Append(acc, cmd_tokens[1])
    ELSE acc

\* The history loop of get_command_completions over hist[k..].
RECURSIVE HistoryScan(_, _, _, _)
HistoryScan(hist, k, prefix, acc) ==
    IF k > Len(hist) THEN acc
    ELSE HistoryScan(hist, k + 1, prefix, HistoryPush(acc, prefix, parse_command(hist[k])))

\* get_command_completions as it would be without `completions.dedup()`.
CommandCompletionsOn_NoDedup(path_var, prefix, al, hist, dir) ==
    LET IsMatch(name) == StartsWith(name, prefix)
    IN  SortStrings(
            HistoryScan(hist, 1, prefix,
                SelectSeq(Builtins, IsMatch)
                \o SetToSeq({ k \in DOMAIN al : StartsWith(k, prefix) })
                \o (IF path_var # None THEN PathScan(path_var[1], 1, prefix, {}, dir)
                    ELSE <<>>)))

\* Shell::get_command_completions where std::env::var("PATH") is path_var:
\* None when the variable is not set, Some(its directories) otherwise.
CommandCompletionsOn(path_var, prefix, al, hist, dir) ==
    LET IsMatch(name) == StartsWith(name, prefix)
    IN  Dedup(SortStrings(
            HistoryScan(hist, 1, prefix,
                SelectSeq(Builtins, IsMatch)
                \o SetToSeq({ k \in DOMAIN al : StartsWith(k, prefix) })
                \o (IF path_var # None THEN PathScan(path_var[1], 1, prefix, {}, dir)
                    ELSE <<>>))))

\* Shell::get_command_completions in the environment of the session
get_command_completions(prefix, al, hist, dir) ==
    CommandCompletionsOn(env_PATH, prefix, al, hist, dir)

\* The (dir_path, file_prefix) pair of get_path_completions, from the parent
\* and the file name of the expanded prefix.
SplitAt(expanded_prefix, parent, name) ==
    IF EndsWithByte(expanded_prefix, A.slash)
    THEN [dir_path |-> expanded_prefix, file_prefix |-> <<>>]
    ELSE IF parent # None
    THEN [dir_path |-> IF parent[1] = <<>> THEN <<A.dot>> ELSE parent[1],
          file_prefix |-> IF name # None THEN name[1] ELSE <<>>]
    ELSE [dir_path |-> <<A.dot>>, file_prefix |-> expanded_prefix]

SplitPathPrefix(expanded_prefix) ==
    SplitAt(expanded_prefix, PathParent(expanded_prefix), PathFileName(expanded_prefix))

\* The listing loop of get_path_completions and its sort.
PathCompletionsIn(sp, dir) ==
    LET Shown(f) ==
            /\ StartsWith(EntryName(f), sp.file_prefix)
            /\ (~StartsWith(EntryName(f), <<A.dot>>) \/ StartsWith(sp.file_prefix, <<A.dot>>))
        Completion(f) ==
            (IF sp.dir_path = <<A.dot>> THEN EntryName(f)
             ELSE IF EndsWithByte(sp.dir_path, A.slash) THEN sp.dir_path \o EntryName(f)
             ELSE sp.dir_path \o <<A.slash>> \o EntryName(f))
            \o (IF f.kind = "dir" THEN <<A.slash>> ELSE <<>>)
    IN  SortStrings(SetToSeq(
            { Completion(f) : f \in { g \in ReadDir(dir, sp.dir_path).entries : Shown(g) } }))

\* Shell::get_path_completions
get_path_completions(prefix, dir) ==
    PathCompletionsIn(SplitPathPrefix(expand_path(prefix)), dir)

\* The branch of generate_completions as it would be if the path branch took
\* the last token whether or not the text ends in a space.
Classify_LastTokenAlways(input_before_cursor, tokens, al, hist, dir) ==
    IF tokens = <<>> \/ (Len(tokens) = 1 /\ ~EndsWithByte(input_before_cursor, A.sp))
    THEN [mode |-> "command",
          prefix |-> IF tokens # <<>> THEN tokens[1] ELSE <<>>,
          completions |-> get_command_completions(
                              IF tokens # <<>> THEN tokens[1] ELSE <<>>, al, hist, dir)]
    ELSE [mode |-> "path", prefix |-> tokens[Len(tokens)],
          completions |-> get_path_completions(tokens[Len(tokens)], dir)]

\* The branch of generate_completions, from the text before the cursor and
\* its tokens: the mode, the prefix and the candidates.
Classify(input_before_cursor, tokens, al, hist, dir) ==
    IF tokens = <<>> \/ (Len(tokens) = 1 /\ ~EndsWithByte(input_before_cursor, A.sp))
    THEN [mode |-> "command",
          prefix |-> IF tokens # <<>> THEN tokens[1] ELSE <<>>,
          completions |-> get_command_completions(
                              IF tokens # <<>> THEN tokens[1] ELSE <<>>, al, hist, dir)]
    ELSE IF EndsWithByte(input_before_cursor, A.sp)
    THEN [mode |-> "path", prefix |-> <<>>,
          completions |-> get_path_completions(<<>>, dir)]
    ELSE [mode |-> "path", prefix |-> tokens[Len(tokens)],
          completions |-> get_path_completions(tokens[Len(tokens)], dir)]

\* Shell::generate_completions, once the slice [..cursor] has not panicked.
generate_completions(input, cursor, al, hist, dir) ==
    Classify(Slice(input, 0, cursor), parse_command(Slice(input, 0, cursor)), al, hist, dir)

\* apply_completion as it would be if it substituted into the buffer on
\* screen instead of the snapshot: candidates pile up on one another.
apply_completion_OnBuffer(input, cursor, orig, start, prefix, comps, index) ==
    IF index # None /\ index[1] < Len(comps)
    THEN IF ReplaceRangePanics(input, start, start + Len(prefix))
         THEN [panic |-> TRUE, input |-> input, cursor |-> cursor, io |-> FALSE, info |-> FALSE]
         ELSE [panic |-> FALSE,
               input |-> ReplaceRange(input, start, start + Len(prefix), comps[index[1] + 1]),
               cursor |-> start + Len(comps[index[1] + 1]),
               io |-> TRUE, info |-> Len(comps) > 1]
    ELSE [panic |-> FALSE, input |-> input, cursor |-> cursor, io |-> FALSE, info |-> FALSE]

\* apply_completion as it would be if it replaced the snapshot from the
\* anchor to the end of the line.
apply_completion_ToLineEnd(input, cursor, orig, start, prefix, comps, index) ==
    IF index # None /\ index[1] < Len(comps)
    THEN IF ReplaceRangePanics(orig, start, Len(orig))
         THEN [panic |-> TRUE, input |-> orig, cursor |-> cursor, io |-> FALSE, info |-> FALSE]
         ELSE [panic |-> FALSE,
               input |-> ReplaceRange(orig, start, Len(orig), comps[index[1] + 1]),
               cursor |-> start + Len(comps[index[1] + 1]),
               io |-> TRUE, info |-> Len(comps) > 1]
    ELSE [panic |-> FALSE, input |-> input, cursor |-> cursor, io |-> FALSE, info |-> FALSE]

\* Shell::apply_completion on the snapshot orig: the new buffer and cursor, or
\* a panic of replace_range; io says whether the terminal is written to, info
\* whether println! and show_completion_info follow the first redraw_line.
\* Nothing changes when index selects no candidate.
apply_completion(input, cursor, orig, start, prefix, comps, index) ==
    IF index # None /\ index[1] < Len(comps)
    THEN IF ReplaceRangePanics(orig, start, start + Len(prefix))
         THEN [panic |-> TRUE, input |-> orig, cursor |-> cursor, io |-> FALSE, info |-> FALSE]
         ELSE [panic |-> FALSE,
               input |-> ReplaceRange(orig, start, start + Len(prefix), comps[index[1] + 1]),
               cursor |-> start + Len(comps[index[1] + 1]),
               io |-> TRUE, info |-> Len(comps) > 1]
    ELSE [panic |-> FALSE, input |-> input, cursor |-> cursor, io |-> FALSE, info |-> FALSE]

\* let max_display = 10
MaxDisplay == 10

\* The first row of the summary as it would be without the branch that
\* clamps the window at the end of the list.
WindowStart_NoEndClamp(n, current) ==
    IF n <= MaxDisplay THEN 0
    ELSE IF current < MaxDisplay \div 2 THEN 0
    ELSE current - MaxDisplay \div 2

\* start_idx of show_completion_info for n candidates, the selected one
\* being current.
WindowStart(n, current) ==
    IF n <= MaxDisplay THEN 0
    ELSE IF current < MaxDisplay \div 2 THEN 0
    ELSE IF current > n - MaxDisplay \div 2 THEN n - MaxDisplay
    ELSE current - MaxDisplay \div 2

\* The indices .enumerate().skip(start).take(max_display) yields among n.
WindowRows(n, start) ==
    [k \in 1 .. (IF n - start < MaxDisplay THEN (IF n > start THEN n - start ELSE 0)
                 ELSE MaxDisplay) |-> start + k - 1]

\* Shell::show_completion_info for n candidates and completion_index index:
\* whether anything is printed, the position and total of the header, the
\* indices of the rows, the row marked ">" and the count of the "more" line
\* (None when there is none).
show_completion_info(n, index) ==
    IF n <= 1
    THEN [shown |-> FALSE, position |-> 0, total |-> n, rows |-> <<>>,
          marked |-> None, more |-> None]
    ELSE [shown |-> TRUE,
          position |-> IF index # None THEN index[1] + 1 ELSE 0,
          total |-> n,
          rows |-> WindowRows(n, WindowStart(n, IF index # None THEN index[1] ELSE 0)),
          marked |-> index,
          more |-> IF n > MaxDisplay THEN Some(n - MaxDisplay) ELSE None]

-----------------------------------------------------------------------------
(* History and command execution *)

\* config.history_size
HistorySize == 2

\* The eviction loop as it would be with pop_back for pop_front.
RECURSIVE EvictOldest_PopBack(_, _)
EvictOldest_PopBack(hist, size) ==
    IF Len(hist) > size THEN EvictOldest_PopBack(SubSeq(hist, 1, Len(hist) - 1), size) ELSE hist

\* The eviction loop of add_to_history: pop_front while the length exceeds the size.
RECURSIVE EvictOldest(_, _)
EvictOldest(hist, size) ==
    IF Len(hist) > size THEN EvictOldest(Tail(hist), size) ELSE hist

\* add_to_history as it would be without the comparison with history.back().
add_to_history_NoCompare(hist, command) ==
    EvictOldest(Append(hist, command), HistorySize)

\* Shell::add_to_history
add_to_history(hist, command) ==
    IF hist = <<>> \/ hist[Len(hist)] # command
    THEN EvictOldest(Append(hist, command), HistorySize)
    ELSE hist

\* The directory change_directory goes to.
CdTarget(expanded_path) ==
    IF expanded_path = <<>>
    THEN (IF HomeVar # None THEN HomeVar[1] ELSE <<A.slash>>)
    ELSE expanded_path

\* Utils::change_directory: whether std::env::set_current_dir succeeds.
change_directory(path, dir) == ResolveDir(dir, CdTarget(expand_path(path)))

\* The "cd" arm of execute_builtin.
BuiltinCd(r, st) ==
    IF r.ok THEN [st EXCEPT !.cwd = r.dir, !.result = "ok"] ELSE [st EXCEPT !.result = "err"]

\* println! returns when standard output takes the text (out_ok) and panics
\* when it does not.
Printed(out_ok) == IF out_ok THEN "ok" ELSE "panic"

\* Shell::execute_builtin on the shell state st = [history, aliases, cwd,
\* result, calls].  out_ok is whether standard output takes what the built-in
\* prints with println!.  The alias arm without two arguments prints one line
\* for each alias; pwd, help and history always print.
execute_builtin(command, args, st, out_ok) ==
    IF command = <<A.c, A.d>>
    THEN BuiltinCd(change_directory(IF args # <<>> THEN args[1] ELSE <<>>, st.cwd), st)
    ELSE IF command = <<A.e, A.x, A.i, A.t>>
    THEN [st EXCEPT !.result = "exit"]
    ELSE IF command = <<A.a, A.l, A.i, A.a, A.s>> /\ Len(args) = 2
    THEN [st EXCEPT !.result = Printed(out_ok),
                    !.aliases = [k \in DOMAIN st.aliases \cup {args[1]} |->
                                   IF k = args[1] THEN args[2] ELSE st.aliases[k]]]
    ELSE IF command = <<A.a, A.l, A.i, A.a, A.s>>
    THEN [st EXCEPT !.result = IF DOMAIN st.aliases = {} THEN "ok" ELSE Printed(out_ok)]
    ELSE IF command \in { <<A.p, A.w, A.d>>, <<A.h, A.e, A.l, A.p>>,
                          <<A.h, A.i, A.s, A.t, A.o, A.r, A.y>> }
    THEN [st EXCEPT !.result = Printed(out_ok)]
    ELSE [st EXCEPT !.result = "err"]    \* Unknown built-in command

\* Shell::execute_command.  ext_ok is whether the operating system can run an
\* external command, out_ok whether standard output takes what a built-in
\* prints.  depth counts the alias expansions so far: more of them
\* than there are aliases means an alias has come round again, the recursion
\* never ends, and the process dies of stack exhaustion ("overflow").
RECURSIVE execute_command(_, _, _, _, _)
RECURSIVE ExecTrimmed(_, _, _, _, _)
RECURSIVE Dispatch(_, _, _, _, _)
execute_command(command, st, ext_ok, out_ok, depth) ==
    ExecTrimmed(Trim(command), st, ext_ok, out_ok, depth)

ExecTrimmed(trimmed, st, ext_ok, out_ok, depth) ==
    IF trimmed = <<>> THEN [st EXCEPT !.result = "ok"]
    ELSE Dispatch(parse_command(trimmed),
                  [st EXCEPT !.history = add_to_history(st.history, trimmed),
                             !.calls = Append(@, trimmed)],
                  ext_ok, out_ok, depth)

Dispatch(tokens, st, ext_ok, out_ok, depth) ==
    IF tokens = <<>> THEN [st EXCEPT !.result = "ok"]
    ELSE IF tokens[1] \in DOMAIN st.aliases
    THEN IF depth >= Cardinality(DOMAIN st.aliases)
         THEN [st EXCEPT !.result = "overflow"]
         ELSE execute_command(st.aliases[tokens[1]], st, ext_ok, out_ok, depth + 1)
    ELSE IF is_builtin(tokens[1])
    THEN execute_builtin(tokens[1], Tail(tokens), st, out_ok)
    ELSE [st EXCEPT !.result = IF ext_ok THEN "ok" ELSE "err"]

-----------------------------------------------------------------------------
(* The interactive loop *)

\* The longest buffer a character is typed into or a completion is started in.
MaxLen == 2

\* The number of key events of a run.
MaxKeys == 7

\* The characters the user types.
Keys == { <<A.c>>, <<A.sp>>, EAcute }

\* config.aliases as loaded.
InitAliases == << >>

\* config.prompt: the default one, "\u{279c} {cwd} $ ", and one of two lines,
\* "{cwd}\n$ ".
DefaultPrompt ==
    <<226, 158, 156, A.sp, A.lbrace, A.c, A.w, A.d, A.rbrace, A.sp, A.dollar, A.sp>>
Prompts ==
    { DefaultPrompt, <<A.lbrace, A.c, A.w, A.d, A.rbrace, A.lf, A.dollar, A.sp>> }

\* Config::default, and the configurations Config::load reads from a file.
DefaultConfig == [prompt |-> DefaultPrompt, enable_colors |-> TRUE]
Configs == [prompt : Prompts, enable_colors : BOOLEAN]

session == <<completions, completion_index, completion_prefix,
             original_input_before_completion, completion_start_pos>>
line == <<current_input, cursor_pos, history_index>>
shellEnv == <<history, aliases, cwd>>
environment == <<config, env_PATH>>
ghost == <<calls, lastKey, tabRun, tabFirst, navRun, arg, ret, keys>>

\* Shell::new, and run_interactive not yet started.
Init ==
    /\ pc = "start"
    /\ raw_mode = FALSE
    /\ pending = <<>>
    /\ history = <<>>
    /\ current_input = <<>>
    /\ cursor_pos = 0
    /\ history_index = None
    /\ completions = <<>>
    /\ completion_index = None
    /\ completion_prefix = <<>>
    /\ original_input_before_completion = <<>>
    /\ completion_start_pos = 0
    /\ aliases = InitAliases
    /\ cwd = StartDir
    /\ config \in Configs
    /\ env_PATH = Some(PathDirs)
    /\ calls = <<>>
    /\ lastKey = "none"
    /\ tabRun = 0
    /\ tabFirst = <<>>
    /\ navRun = <<>>
    /\ arg = <<>>
    /\ ret = <<>>
    /\ keys = 0

\* The run of Up presses and then Down presses that key continues or begins:
\* a run begins with Up on an empty buffer while no entry is shown, takes as
\* many Up presses as history has entries and then as many Down presses.
NavRunAfter(key) ==
    IF key = "Up" /\ navRun = <<>>
    THEN (IF current_input = <<>> /\ history_index = None /\ history # <<>>
          THEN [ups |-> 1, downs |-> 0] ELSE <<>>)
    ELSE IF key = "Up" /\ navRun # <<>>
    THEN (IF navRun.downs = 0 /\ navRun.ups < Len(history)
          THEN [navRun EXCEPT !.ups = @ + 1] ELSE <<>>)
    ELSE IF key = "Down" /\ navRun # <<>>
    THEN (IF navRun.ups = Len(history) /\ navRun.downs < navRun.ups
          THEN [navRun EXCEPT !.downs = @ + 1] ELSE <<>>)
    ELSE <<>>

\* event::read() returns the key event named key.
KeyEvent(key) ==
    /\ pc = "read"
    /\ keys < MaxKeys
    /\ keys' = keys + 1
    /\ lastKey' = key
    /\ navRun' = NavRunAfter(key)
    /\ UNCHANGED <<calls, arg, ret>>

\* The key is not a Tab that starts or continues a run of Tab presses.
NoTabRun == tabRun' = 0 /\ tabFirst' = <<>>

\* A write to the terminal with execute! succeeds, or fails and the error
\* ends run_interactive through `?`.
TerminalWrite == \E ok \in BOOLEAN : pc' = IF ok THEN "read" ELSE "err_draw"

\* The capacity of the buffer of std's standard output (a LineWriter).
StdoutCapacity == 1024

\* BufWriter::write_all of a piece with `used` bytes buffered: a piece that
\* does not fit beside them has them written first, a piece of the capacity
\* or more is written at once, any other is buffered.
BufferPiece(used, piece) ==
    [wrote |-> used + Len(piece) > StdoutCapacity \/ Len(piece) >= StdoutCapacity,
     used |-> IF Len(piece) >= StdoutCapacity THEN 0
              ELSE IF used + Len(piece) > StdoutCapacity THEN Len(piece)
              ELSE used + Len(piece)]

\* LineWriter::write_all of a piece: with a line feed, what was buffered and
\* the piece up to its last line feed are written and the rest goes to the
\* buffer; without one, the piece goes to the buffer.
WritePiece(used, piece) ==
    LET feeds == { i \in 1 .. Len(piece) : piece[i] = A.lf }
        last == CHOOSE i \in feeds : \A j \in feeds : j <= i
    IN  IF feeds # {}
        THEN [wrote |-> TRUE,
              used |-> BufferPiece(0, Slice(piece, last, Len(piece))).used]
        ELSE BufferPiece(used, piece)

\* print! of the arguments pieces, one after another, the buffer of standard
\* output empty at first, makes a write before any flush.
WritesThrough(pieces) ==
    LET RECURSIVE WritesFrom(_, _)
        WritesFrom(ps, used) ==
            IF ps = <<>> THEN FALSE
            ELSE WritePiece(used, Head(ps)).wrote
                 \/ WritesFrom(Tail(ps), WritePiece(used, Head(ps)).used)
    IN  WritesFrom(pieces, 0)

\* Shell::display_prompt with the buffer input.  With colours the prompt and
\* the buffer go out by execute!(...)?; without, by print!, which panics when
\* a write it makes fails; execute!(MoveLeft)? and flush()? follow.
display_prompt(input) ==
    \/ pc' = "read"
    \/ pc' = "err_draw"
    \/ /\ ~config.enable_colors
       /\ WritesThrough(<<format_prompt(config.prompt, cwd), input>>)
       /\ pc' = "panicked"

\* Shell::redraw_line with the buffer input: execute!(...)?, then
\* display_prompt()?
redraw_line(input) ==
    \/ pc' = "err_draw"
    \/ display_prompt(input)

\* Shell::reset_completion
reset_completion ==
    /\ completions' = <<>>
    /\ completion_index' = None
    /\ completion_prefix' = <<>>
    /\ original_input_before_completion' = <<>>
    /\ completion_start_pos' = 0

\* Shell::reset_input
reset_input ==
    /\ current_input' = <<>>
    /\ cursor_pos' = 0
    /\ history_index' = None
    /\ reset_completion

\* run_interactive up to the loop: the two println! of the banner, which
\* panic when standard output does not take them, then
\* terminal::enable_raw_mode()?
Start ==
    /\ pc = "start"
    /\ \/ /\ pc' = "panicked"
          /\ raw_mode' = FALSE
       \/ \E ok \in BOOLEAN :
            /\ raw_mode' = ok
            /\ pc' = IF ok THEN "prompt" ELSE "err_enable"
    /\ UNCHANGED <<environment, pending, line, session, shellEnv, ghost>>

\* self.display_prompt()? at the top of the loop
DisplayPrompt ==
    /\ pc = "prompt"
    /\ display_prompt(current_input)
    /\ UNCHANGED <<environment, raw_mode, pending, line, session, shellEnv, ghost>>

\* event::read()? fails
ReadFails ==
    /\ pc = "read"
    /\ pc' = "err_read"
    /\ UNCHANGED <<environment, raw_mode, pending, line, session, shellEnv, ghost>>

\* An event that is no key event, or a key no arm matches
KeyOther ==
    /\ KeyEvent("Other")
    /\ NoTabRun
    /\ UNCHANGED <<pc, environment, raw_mode, pending, line, session, shellEnv>>

KeyCtrlC ==
    /\ KeyEvent("CtrlC")
    /\ pc' = "break"
    /\ NoTabRun
    /\ UNCHANGED <<environment, raw_mode, pending, line, session, shellEnv>>

\* The Ctrl+D arm as it would be without the test `is_empty()`.
KeyCtrlD_Always ==
    /\ KeyEvent("CtrlD")
    /\ pc' = "break"
    /\ NoTabRun
    /\ UNCHANGED <<environment, raw_mode, pending, line, session, shellEnv>>

\* The Ctrl+D arm of read_input
KeyCtrlD ==
    /\ KeyEvent("CtrlD")
    /\ pc' = IF current_input = <<>> THEN "break" ELSE "read"
    /\ NoTabRun
    /\ UNCHANGED <<environment, raw_mode, pending, line, session, shellEnv>>

KeyEnter ==
    /\ KeyEvent("Enter")
    /\ pending' = current_input
    /\ pc' = "exec"
    /\ NoTabRun
    /\ UNCHANGED <<environment, raw_mode, line, session, shellEnv>>

\* The Backspace arm as it would be without `self.cursor_pos -= 1`.
KeyBackspace_CursorStays ==
    /\ KeyEvent("Backspace")
    /\ NoTabRun
    /\ reset_completion
    /\ IF cursor_pos > 0
       THEN IF RemovePanics(current_input, cursor_pos - 1)
            THEN /\ pc' = "panicked"
                 /\ UNCHANGED <<current_input, cursor_pos>>
            ELSE /\ current_input' = StrRemove(current_input, cursor_pos - 1)
                 /\ cursor_pos' = cursor_pos
                 /\ redraw_line(current_input')
       ELSE UNCHANGED <<pc, current_input, cursor_pos>>
    /\ UNCHANGED <<environment, raw_mode, pending, history_index, shellEnv>>

\* The Backspace arm of read_input
KeyBackspace ==
    /\ KeyEvent("Backspace")
    /\ NoTabRun
    /\ reset_completion
    /\ IF cursor_pos > 0
       THEN IF RemovePanics(current_input, cursor_pos - 1)
            THEN /\ pc' = "panicked"
                 /\ UNCHANGED <<current_input, cursor_pos>>
            ELSE /\ current_input' = StrRemove(current_input, cursor_pos - 1)
                 /\ cursor_pos' = cursor_pos - 1
                 /\ redraw_line(current_input')
       ELSE UNCHANGED <<pc, current_input, cursor_pos>>
    /\ UNCHANGED <<environment, raw_mode, pending, history_index, shellEnv>>

KeyDelete ==
    /\ KeyEvent("Delete")
    /\ NoTabRun
    /\ reset_completion
    /\ IF cursor_pos < Len(current_input)
       THEN IF RemovePanics(current_input, cursor_pos)
            THEN /\ pc' = "panicked"
                 /\ UNCHANGED current_input
            ELSE /\ current_input' = StrRemove(current_input, cursor_pos)
                 /\ redraw_line(current_input')
       ELSE UNCHANGED <<pc, current_input>>
    /\ UNCHANGED <<environment, raw_mode, pending, cursor_pos, history_index, shellEnv>>

KeyLeft ==
    /\ KeyEvent("Left")
    /\ NoTabRun
    /\ IF cursor_pos > 0
       THEN /\ cursor_pos' = cursor_pos - 1
            /\ TerminalWrite
       ELSE UNCHANGED <<pc, cursor_pos>>
    /\ UNCHANGED <<environment, raw_mode, pending, current_input, history_index, session, shellEnv>>

KeyRight ==
    /\ KeyEvent("Right")
    /\ NoTabRun
    /\ IF cursor_pos < Len(current_input)
       THEN /\ cursor_pos' = cursor_pos + 1
            /\ TerminalWrite
       ELSE UNCHANGED <<pc, cursor_pos>>
    /\ UNCHANGED <<environment, raw_mode, pending, current_input, history_index, session, shellEnv>>

\* The Home arm as it would be with a call of reset_completion.
KeyHome_ResetsCompletion ==
    /\ KeyEvent("Home")
    /\ NoTabRun
    /\ reset_completion
    /\ TerminalWrite
    /\ cursor_pos' = IF pc' = "read" THEN 0 ELSE cursor_pos
    /\ UNCHANGED <<environment, raw_mode, pending, current_input, history_index, shellEnv>>

\* Home: the terminal write comes first, the assignment after it.
KeyHome ==
    /\ KeyEvent("Home")
    /\ NoTabRun
    /\ TerminalWrite
    /\ cursor_pos' = IF pc' = "read" THEN 0 ELSE cursor_pos
    /\ UNCHANGED <<environment, raw_mode, pending, current_input, history_index, session, shellEnv>>

\* End: as Home.
KeyEnd ==
    /\ KeyEvent("End")
    /\ NoTabRun
    /\ TerminalWrite
    /\ cursor_pos' = IF pc' = "read" THEN Len(current_input) ELSE cursor_pos
    /\ UNCHANGED <<environment, raw_mode, pending, current_input, history_index, session, shellEnv>>

\* The (KeyCode::Char(c), _) arm
KeyChar(ch) ==
    /\ KeyEvent("Char")
    /\ Len(current_input) < MaxLen
    /\ NoTabRun
    /\ reset_completion
    /\ IF InsertPanics(current_input, cursor_pos)
       THEN /\ pc' = "panicked"
            /\ UNCHANGED <<current_input, cursor_pos>>
       ELSE /\ current_input' = StrInsert(current_input, cursor_pos, ch)
            /\ cursor_pos' = cursor_pos + 1
            /\ redraw_line(current_input')
    /\ UNCHANGED <<environment, raw_mode, pending, history_index, shellEnv>>

\* The match of navigate_history as it would be if Up at the oldest entry
\* wrapped around to the newest.
history_step_UpWraps(hist, index, up) ==
    IF hist = <<>> THEN [kind |-> "none", to |-> 0]
    ELSE IF index = None
    THEN (IF up THEN [kind |-> "move", to |-> Len(hist) - 1] ELSE [kind |-> "none", to |-> 0])
    ELSE IF up /\ index[1] > 0 THEN [kind |-> "move", to |-> index[1] - 1]
    ELSE IF ~up /\ index[1] < Len(hist) - 1 THEN [kind |-> "move", to |-> index[1] + 1]
    ELSE IF ~up THEN [kind |-> "stop", to |-> 0]
    ELSE [kind |-> "move", to |-> Len(hist) - 1]

\* The match of navigate_history as it would be if Down at the newest entry
\* did nothing.
history_step_DownStays(hist, index, up) ==
    IF hist = <<>> THEN [kind |-> "none", to |-> 0]
    ELSE IF index = None
    THEN (IF up THEN [kind |-> "move", to |-> Len(hist) - 1] ELSE [kind |-> "none", to |-> 0])
    ELSE IF up /\ index[1] > 0 THEN [kind |-> "move", to |-> index[1] - 1]
    ELSE IF ~up /\ index[1] < Len(hist) - 1 THEN [kind |-> "move", to |-> index[1] + 1]
    ELSE [kind |-> "none", to |-> 0]

\* The match of navigate_history as it would be if the first Up began at
\* `self.history.len()`.
history_step_UpFromLen(hist, index, up) ==
    IF hist = <<>> THEN [kind |-> "none", to |-> 0]
    ELSE IF index = None
    THEN (IF up THEN [kind |-> "move", to |-> Len(hist)] ELSE [kind |-> "none", to |-> 0])
    ELSE IF up /\ index[1] > 0 THEN [kind |-> "move", to |-> index[1] - 1]
    ELSE IF ~up /\ index[1] < Len(hist) - 1 THEN [kind |-> "move", to |-> index[1] + 1]
    ELSE IF ~up THEN [kind |-> "stop", to |-> 0]
    ELSE [kind |-> "none", to |-> 0]

\* The match of navigate_history as it would be with `i < self.history.len()`
\* for `i < self.history.len() - 1` in the Down arm.
history_step_DownTooFar(hist, index, up) ==
    IF hist = <<>> THEN [kind |-> "none", to |-> 0]
    ELSE IF index = None
    THEN (IF up THEN [kind |-> "move", to |-> Len(hist) - 1] ELSE [kind |-> "none", to |-> 0])
    ELSE IF up /\ index[1] > 0 THEN [kind |-> "move", to |-> index[1] - 1]
    ELSE IF ~up /\ index[1] < Len(hist) THEN [kind |-> "move", to |-> index[1] + 1]
    ELSE IF ~up THEN [kind |-> "stop", to |-> 0]
    ELSE [kind |-> "none", to |-> 0]

\* The match of navigate_history: what the key does to history_index.
\* "none" returns at once, "stop" leaves browsing, "move" goes to index to.
history_step(hist, index, up) ==
    IF hist = <<>> THEN [kind |-> "none", to |-> 0]
    ELSE IF index = None
    THEN (IF up THEN [kind |-> "move", to |-> Len(hist) - 1] ELSE [kind |-> "none", to |-> 0])
    ELSE IF up /\ index[1] > 0 THEN [kind |-> "move", to |-> index[1] - 1]
    ELSE IF ~up /\ index[1] < Len(hist) - 1 THEN [kind |-> "move", to |-> index[1] + 1]
    ELSE IF ~up THEN [kind |-> "stop", to |-> 0]
    ELSE [kind |-> "none", to |-> 0]

\* navigate_history after the match as it would be without
\* `self.cursor_pos = self.current_input.len()`.
navigate_history_CursorStays(step) ==
    /\ NoTabRun
    /\ CASE step.kind = "none" ->
              UNCHANGED <<pc, line>>
         [] step.kind = "stop" ->
              /\ history_index' = None
              /\ current_input' = <<>>
              /\ cursor_pos' = 0
              /\ redraw_line(current_input')
         [] step.kind = "move" ->
              /\ history_index' = Some(step.to)
              /\ IF step.to >= Len(history)
                 THEN /\ pc' = "panicked"
                      /\ UNCHANGED <<current_input, cursor_pos>>
                 ELSE /\ current_input' = history[step.to + 1]
                      /\ cursor_pos' = cursor_pos
                      /\ redraw_line(current_input')
    /\ UNCHANGED <<environment, raw_mode, pending, session, shellEnv>>

\* Shell::navigate_history after the match
navigate_history(step) ==
    /\ NoTabRun
    /\ CASE step.kind = "none" ->
              UNCHANGED <<pc, line>>
         [] step.kind = "stop" ->
              /\ history_index' = None
              /\ current_input' = <<>>
              /\ cursor_pos' = 0
              /\ redraw_line(current_input')
         [] step.kind = "move" ->
              /\ history_index' = Some(step.to)
              /\ IF step.to >= Len(history)
                 THEN /\ pc' = "panicked"
                      /\ UNCHANGED <<current_input, cursor_pos>>
                 ELSE /\ current_input' = history[step.to + 1]
                      /\ cursor_pos' = Len(history[step.to + 1])
                      /\ redraw_line(current_input')
    /\ UNCHANGED <<environment, raw_mode, pending, session, shellEnv>>

KeyUp ==
    /\ KeyEvent("Up")
    /\ navigate_history(history_step(history, history_index, TRUE))

KeyDown ==
    /\ KeyEvent("Down")
    /\ navigate_history(history_step(history, history_index, FALSE))


\* The end of handle_tab_completion: what apply_completion did, r, is stored;
\* run is the new count of Tab presses in a row.  With several candidates
\* their list is printed with println!, which panics when standard output
\* does not take it; the candidate is in the buffer by then.
Applied(r, run) ==
    /\ current_input' = r.input
    /\ cursor_pos' = r.cursor
    /\ tabRun' = IF r.panic THEN 0 ELSE run
    /\ tabFirst' = IF r.panic \/ run = 0 THEN <<>>
                   ELSE IF run = 1 THEN <<current_input, cursor_pos>>
                   ELSE tabFirst
    /\ IF r.panic THEN pc' = "panicked"
       ELSE IF r.io /\ r.info
       THEN \* redraw_line()?, println!(), show_completion_info()?, redraw_line()?
            redraw_line(r.input) \/ pc' = "panicked"
       ELSE IF r.io THEN redraw_line(r.input)
       ELSE pc' = pc

\* The first Tab as it would be without the return on an empty candidate list.
StartSession_NoEarlyReturn(g) ==
    /\ completion_prefix' = g.prefix
    /\ completions' = g.completions
    /\ completion_start_pos' = SaturatingSub(cursor_pos, Len(g.prefix))
    /\ completion_index' = Some(0)
    /\ Applied(apply_completion(current_input, cursor_pos, current_input,
                                SaturatingSub(cursor_pos, Len(g.prefix)),
                                g.prefix, g.completions, Some(0)),
               IF g.completions = <<>> THEN 0 ELSE 1)

\* The first Tab, after generate_completions has returned g.
StartSession(g) ==
    /\ completion_prefix' = g.prefix
    /\ completions' = g.completions
    /\ IF g.completions = <<>>
       THEN /\ NoTabRun
            /\ UNCHANGED <<pc, current_input, cursor_pos, completion_index,
                           completion_start_pos>>
       ELSE /\ completion_start_pos' = SaturatingSub(cursor_pos, Len(g.prefix))
            /\ completion_index' = Some(0)
            /\ Applied(apply_completion(current_input, cursor_pos, current_input,
                                        SaturatingSub(cursor_pos, Len(g.prefix)),
                                        g.prefix, g.completions, Some(0)), 1)

\* A later Tab as it would be without the modulo.
CycleSession_NoWrap ==
    /\ IF completion_index # None
       THEN /\ completion_index' = Some(completion_index[1] + 1)
            /\ Applied(apply_completion(current_input, cursor_pos,
                                        original_input_before_completion,
                                        completion_start_pos, completion_prefix, completions,
                                        Some(completion_index[1] + 1)),
                       IF tabRun = 0 THEN 0 ELSE tabRun + 1)
       ELSE /\ NoTabRun
            /\ UNCHANGED <<pc, current_input, cursor_pos, completion_index>>
    /\ UNCHANGED <<completions, completion_prefix, original_input_before_completion,
                   completion_start_pos>>

\* A later Tab: the next candidate, modulo their number.
CycleSession ==
    /\ IF completion_index # None
       THEN /\ completion_index' = Some((completion_index[1] + 1) % Len(completions))
            /\ Applied(apply_completion(current_input, cursor_pos,
                                        original_input_before_completion,
                                        completion_start_pos, completion_prefix, completions,
                                        Some((completion_index[1] + 1) % Len(completions))),
                       IF tabRun = 0 THEN 0 ELSE tabRun + 1)
       ELSE /\ NoTabRun
            /\ UNCHANGED <<pc, current_input, cursor_pos, completion_index>>
    /\ UNCHANGED <<completions, completion_prefix, original_input_before_completion,
                   completion_start_pos>>

\* Shell::handle_tab_completion
handle_tab_completion ==
    IF completions = <<>>
    THEN /\ original_input_before_completion' = current_input
         /\ IF ~IsCharBoundary(current_input, cursor_pos)
            THEN \* &self.current_input[..self.cursor_pos] panics
                 /\ pc' = "panicked"
                 /\ NoTabRun
                 /\ UNCHANGED <<current_input, cursor_pos, completions, completion_index,
                                completion_prefix, completion_start_pos>>
            ELSE StartSession(generate_completions(current_input, cursor_pos, aliases,
                                                   history, cwd))
    ELSE CycleSession

\* The Tab arm of read_input
TabPress ==
    /\ KeyEvent("Tab")
    /\ handle_tab_completion
    /\ UNCHANGED <<environment, raw_mode, pending, history_index, shellEnv>>

\* The Tab arm; a session is begun on buffers of at most MaxLen bytes.
KeyTab ==
    /\ completions = <<>> => Len(current_input) <= MaxLen
    /\ TabPress

\* Where Shell::print_error ends the loop when its write fails: with colours
\* execute!(...)? returns the error, without them println! panics.
print_error_fails == IF config.enable_colors THEN "err_print" ELSE "panicked"

\* The Command arm as it would be if an error of execute_command were
\* printed and the line left as it is.
Executed_ErrorKeepsLine(r) ==
    /\ history' = r.history
    /\ calls' = r.calls
    /\ aliases' = r.aliases
    /\ cwd' = r.cwd
    /\ CASE r.result = "exit" ->
              /\ pc' = "exited"
              /\ UNCHANGED <<line, session>>
         [] r.result = "overflow" ->
              /\ pc' = "crashed"
              /\ UNCHANGED <<line, session>>
         [] r.result = "panic" ->
              /\ pc' = "panicked"
              /\ UNCHANGED <<line, session>>
         [] r.result = "err" ->
              /\ pc' \in {"prompt", print_error_fails}
              /\ UNCHANGED <<line, session>>
         [] r.result = "ok" ->
              pc' = "prompt" /\ reset_input

\* The Command arm of run_interactive after execute_command has returned r:
\* print_error on an error, then reset_input.
Executed(r) ==
    /\ history' = r.history
    /\ calls' = r.calls
    /\ aliases' = r.aliases
    /\ cwd' = r.cwd
    /\ CASE r.result = "exit" ->       \* std::process::exit(0)
              /\ pc' = "exited"
              /\ UNCHANGED <<line, session>>
         [] r.result = "overflow" ->   \* the stack is exhausted
              /\ pc' = "crashed"
              /\ UNCHANGED <<line, session>>
         [] r.result = "panic" ->      \* a println! of a built-in panics
              /\ pc' = "panicked"
              /\ UNCHANGED <<line, session>>
         [] r.result = "err" ->     \* self.print_error(...)?, then reset_input
              \/ pc' = "prompt" /\ reset_input
              \/ pc' = print_error_fails /\ UNCHANGED <<line, session>>
         [] r.result = "ok" ->
              pc' = "prompt" /\ reset_input

\* The Command arm of run_interactive: println!() first, which panics when
\* standard output does not take the line, the command not yet run.
Execute ==
    /\ pc = "exec"
    /\ \/ /\ pc' = "panicked"
          /\ UNCHANGED <<line, session, shellEnv, calls>>
       \/ \E ext_ok, out_ok \in BOOLEAN :
            Executed(execute_command(pending,
                         [history |-> history, aliases |-> aliases, cwd |-> cwd,
                          result |-> "ok", calls |-> calls], ext_ok, out_ok, 0))
    /\ pending' = <<>>
    /\ NoTabRun
    /\ navRun' = <<>>
    /\ UNCHANGED <<environment, raw_mode, lastKey, keys, arg, ret>>

\* After the loop: terminal::disable_raw_mode()?, then println!("\nGoodbye!"),
\* which panics when standard output does not take it.
Finish ==
    /\ pc = "break"
    /\ \E ok \in BOOLEAN :
         /\ raw_mode' = (raw_mode /\ ~ok)
         /\ pc' \in IF ok THEN {"done", "panicked"} ELSE {"err_disable"}
    /\ UNCHANGED <<environment, pending, line, session, shellEnv, ghost>>

Next ==
    \/ Start
    \/ DisplayPrompt
    \/ ReadFails
    \/ KeyOther
    \/ KeyCtrlC
    \/ KeyCtrlD
    \/ KeyEnter
    \/ KeyBackspace
    \/ KeyDelete
    \/ KeyLeft
    \/ KeyRight
    \/ KeyUp
    \/ KeyDown
    \/ KeyHome
    \/ KeyEnd
    \/ KeyTab
    \/ \E ch \in Keys : KeyChar(ch)
    \/ Execute
    \/ Finish

Spec == Init /\ [][Next]_vars

-----------------------------------------------------------------------------
(* The line editor on a fresh line of a session that has run commands *)

\* Commands a session may have run.
NavCommands == { <<A.c>>, EAcute, <<A.c, A.d>> }

\* The histories add_to_history can have built from them: at most
\* HistorySize entries, no two neighbours equal.
NavHistories ==
    { h \in UNION { [1 .. n -> NavCommands] : n \in 1 .. HistorySize } :
        \A i \in 1 .. Len(h) - 1 : h[i] # h[i + 1] }

\* run_interactive waits for the first key of a line, the history in place.
InitNav ==
    /\ pc = "read"
    /\ raw_mode = TRUE
    /\ pending = <<>>
    /\ history \in NavHistories
    /\ current_input = <<>>
    /\ cursor_pos = 0
    /\ history_index = None
    /\ completions = <<>>
    /\ completion_index = None
    /\ completion_prefix = <<>>
    /\ original_input_before_completion = <<>>
    /\ completion_start_pos = 0
    /\ aliases = InitAliases
    /\ cwd = StartDir
    /\ config \in Configs
    /\ env_PATH = Some(PathDirs)
    /\ calls = history
    /\ lastKey = "none"
    /\ tabRun = 0
    /\ tabFirst = <<>>
    /\ navRun = <<>>
    /\ arg = <<>>
    /\ ret = <<>>
    /\ keys = 0

\* The keys that browse history and edit the line.
NextNav ==
    \/ KeyUp
    \/ KeyDown
    \/ KeyLeft
    \/ KeyRight
    \/ KeyHome
    \/ KeyEnd
    \/ KeyBackspace
    \/ KeyDelete
    \/ KeyOther
    \/ \E ch \in Keys : KeyChar(ch)

SpecNav == InitNav /\ [][NextNav]_vars

-----------------------------------------------------------------------------
(* The functions of the completion engine and the tokenizer, applied on *)
(* their own to inputs drawn from bounded sets                          *)

\* The longest string of TokAlphabet, the most candidates of a summary.
MaxTokLen == 4
MaxCandidates == 13

\* A letter, the two separators, the two quotes and the backslash.
TokAlphabet == { A.a, A.sp, A.tab, A.sq, A.dq, A.bs }

\* "a b", "'a b' c", "a\\ b", "ls ", "ls /tm", "ec"
LineExamples ==
    { <<A.a, A.sp, A.b>>,
      <<A.sq, A.a, A.sp, A.b, A.sq, A.sp, A.c>>,
      <<A.a, A.bs, A.sp, A.b>>,
      <<A.l, A.s, A.sp>>,
      <<A.l, A.s, A.sp, A.slash, A.t, 109>>,
      <<A.e, A.c>> }

\* Every string of at most MaxTokLen characters of TokAlphabet, and the examples.
Lines == UNION { [1 .. n -> TokAlphabet] : n \in 0 .. MaxTokLen } \cup LineExamples

\* Prefixes of command names.
CommandPrefixes ==
    { <<>>, <<A.c>>, <<A.c, A.a>>, <<A.c, A.d>>, <<A.c, A.a, A.t>>, <<A.c, A.o>>,
      <<A.c, A.s>>, <<A.c, A.x>>, <<A.a>>, <<A.x>>, <<A.n>>, EAcute }

\* config.aliases: none; one named like an executable of PATH; two, one of
\* them named like a built-in.
AliasTables ==
    { << >>,
      (<<A.c, A.a, A.t>> :> <<A.c, A.d>>),
      (<<A.c, A.d>> :> <<A.c, A.x>>) @@ (<<A.c, A.x>> :> <<A.c, A.d>>) }

\* $PATH: not set; one directory; two directories that hold the same name
\* and one that does not exist; a relative directory and the home directory.
PathVars ==
    { None,
      Some(<< <<A.slash, A.b>> >>),
      Some(PathDirs),
      Some(<< <<A.s>>, <<A.slash, A.h>>, <<A.slash, A.u>> >>) }

\* Histories: none, and those of NavHistories with a command of two tokens
\* and a quoted one in front.
PureHistories ==
    { <<>>, << <<A.c, A.x, A.sp, A.c>>, <<A.c, A.x>> >>,
      << <<A.sq, A.c, A.sp, A.a, A.sq>>, <<A.c, A.a, A.t>> >> } \cup NavHistories

\* Prefixes of paths.
PathPrefixes ==
    { <<>>, <<A.dot>>, <<A.dot, A.b>>, <<A.dot, A.dot>>, <<A.dot, A.slash>>,
      <<A.dot, A.slash, A.dot>>, <<A.dot, A.slash, A.n>>, <<A.n>>, <<A.s>>, <<A.s, A.slash>>,
      <<A.x>>, <<A.x, A.slash>>, <<A.slash>>, <<A.slash, A.h>>, <<A.slash, A.h, A.slash>>,
      <<A.slash, A.h, A.slash, A.dot>>, <<A.slash, A.h, A.slash, A.dot, A.b>>,
      <<A.slash, A.b, A.slash, A.c>>, <<A.slash, A.x, A.slash>>, <<A.tilde>>,
      <<A.tilde, A.slash>>, <<A.tilde, A.slash, A.dot>>, <<A.tilde, A.slash, A.n>>,
      <<A.n, A.slash, A.dot, A.dot, A.slash>>, <<A.s, A.slash, A.dot, A.dot, A.slash>> }

\* Working directories: the home directory, a directory of PATH, the root.
WorkDirs == { StartDir, << <<A.b>> >>, <<>> }

\* The calls made: the function and its arguments.
PureArgs ==
    { [fn |-> "parse_command", input |-> i] : i \in Lines }
    \cup { [fn |-> "generate_completions", input |-> i, cursor |-> c, dir |-> StartDir] :
             i \in Lines, c \in 0 .. MaxTokLen + 3 }
    \cup { [fn |-> "get_command_completions", path_var |-> v, prefix |-> p, aliases |-> al,
            history |-> h, dir |-> StartDir] :
             v \in PathVars, p \in CommandPrefixes, al \in AliasTables, h \in PureHistories }
    \cup { [fn |-> "get_path_completions", prefix |-> p, dir |-> d] :
             p \in PathPrefixes, d \in WorkDirs }
    \cup { [fn |-> "show_completion_info", n |-> n, index |-> Some(i)] :
             n \in 1 .. MaxCandidates, i \in 0 .. MaxCandidates - 1 }

\* A shell as Shell::new builds it, about to make one of the calls.
InitPure ==
    /\ pc = "call"
    /\ raw_mode = FALSE
    /\ pending = <<>>
    /\ history = <<>>
    /\ current_input = <<>>
    /\ cursor_pos = 0
    /\ history_index = None
    /\ completions = <<>>
    /\ completion_index = None
    /\ completion_prefix = <<>>
    /\ original_input_before_completion = <<>>
    /\ completion_start_pos = 0
    /\ aliases = InitAliases
    /\ cwd = StartDir
    /\ config = DefaultConfig
    /\ env_PATH = Some(PathDirs)
    /\ calls = <<>>
    /\ lastKey = "none"
    /\ tabRun = 0
    /\ tabFirst = <<>>
    /\ navRun = <<>>
    /\ arg \in { a \in PureArgs :
                   /\ a.fn = "generate_completions" => a.cursor <= Len(a.input)
                   /\ a.fn = "show_completion_info" => a.index[1] < a.n }
    /\ ret = <<>>
    /\ keys = 0

\* The call of function fn returns v.
Returns(fn, v) ==
    /\ pc = "call"
    /\ arg.fn = fn
    /\ pc' = "returned"
    /\ ret' = <<v>>
    /\ UNCHANGED <<environment, raw_mode, pending, line, session, shellEnv, calls,
                   lastKey, tabRun, tabFirst, navRun, arg, keys>>

CallParseCommand ==
    /\ arg.fn = "parse_command"
    /\ Returns("parse_command", parse_command(arg.input))

CallGenerateCompletions ==
    /\ arg.fn = "generate_completions"
    /\ Returns("generate_completions",
               generate_completions(arg.input, arg.cursor, aliases, history, arg.dir))

CallCommandCompletions ==
    /\ arg.fn = "get_command_completions"
    /\ Returns("get_command_completions",
               CommandCompletionsOn(arg.path_var, arg.prefix, arg.aliases, arg.history,
                                    arg.dir))

CallPathCompletions ==
    /\ arg.fn = "get_path_completions"
    /\ Returns("get_path_completions", get_path_completions(arg.prefix, arg.dir))

\* A call that prints: println! panics when standard output does not take
\* the text, and the call does not return.
PrintPanics(fn) ==
    /\ pc = "call"
    /\ arg.fn = fn
    /\ pc' = "panicked"
    /\ UNCHANGED <<environment, raw_mode, pending, line, session, shellEnv, ghost>>

CallShowCompletionInfo ==
    /\ arg.fn = "show_completion_info"
    /\ \/ Returns("show_completion_info", show_completion_info(arg.n, arg.index))
       \/ /\ show_completion_info(arg.n, arg.index).shown
          /\ PrintPanics("show_completion_info")

NextPure ==
    \/ CallParseCommand
    \/ CallGenerateCompletions
    \/ CallCommandCompletions
    \/ CallPathCompletions
    \/ CallShowCompletionInfo

SpecPure == InitPure /\ [][NextPure]_vars

\* The function fn has returned.
Returned(fn) == pc = "returned" /\ arg.fn = fn

-----------------------------------------------------------------------------
(* Tab on a line that has been typed *)

\* The characters typed: letters, the space and the slash.
TabAlphabet == { A.c, A.x, A.sp, A.slash }

\* Buffers with a token written with quotes or a backslash:
\* 'c   'c'   "c   \c   c\ x   c 's   x "/b/c"
QuotedLines ==
    { <<A.sq, A.c>>, <<A.sq, A.c, A.sq>>, <<A.dq, A.c>>, <<A.bs, A.c>>,
      <<A.c, A.bs, A.sp, A.x>>, <<A.c, A.sp, A.sq, A.s>>,
      <<A.x, A.sp, A.dq, A.slash, A.b, A.slash, A.c, A.dq>> }

\* The buffers typed: at most MaxTokLen characters of TabAlphabet, the
\* two-byte character alone, those of QuotedLines, and "ca", which begins the
\* name of no built-in, only that of an executable of PATH.
TabLines ==
    UNION { [1 .. n -> TabAlphabet] : n \in 0 .. MaxTokLen }
    \cup { EAcute } \cup QuotedLines \cup { <<A.c, A.a>> }

\* read_input waits for a key, the line typed and the cursor moved by Left
\* and Right to any byte offset; no command has been run.  PATH is set or not.
InitTab ==
    /\ pc = "read"
    /\ raw_mode = TRUE
    /\ pending = <<>>
    /\ history = <<>>
    /\ current_input \in TabLines
    /\ cursor_pos \in 0 .. MaxTokLen + 4
    /\ cursor_pos <= Len(current_input)
    /\ history_index = None
    /\ completions = <<>>
    /\ completion_index = None
    /\ completion_prefix = <<>>
    /\ original_input_before_completion = <<>>
    /\ completion_start_pos = 0
    /\ aliases = InitAliases
    /\ cwd = StartDir
    /\ config \in Configs
    /\ env_PATH \in {None, Some(PathDirs)}
    /\ calls = <<>>
    /\ lastKey = "none"
    /\ tabRun = 0
    /\ tabFirst = <<>>
    /\ navRun = <<>>
    /\ arg = <<>>
    /\ ret = <<>>
    /\ keys = 0

SpecTab == InitTab /\ [][TabPress]_vars

-----------------------------------------------------------------------------
(* Commands run under an alias table read from the configuration file *)

\* config.aliases as Config::load reads it from the file: no alias; an alias
\* of a built-in; an alias of itself; two aliases of each other.
ConfigAliasTables ==
    { << >>,
      (<<A.c>> :> <<A.c, A.d>>),
      (<<A.c>> :> <<A.c>>),
      (<<A.c>> :> EAcute) @@ (EAcute :> <<A.c>>) }

\* The line typed so far: nothing, a name between two no-break spaces
\* (U+00A0), or an alias command.
AliasLines ==
    { <<>>,
      <<194, 160, A.c, 194, 160>>,
      <<A.a, A.l, A.i, A.a, A.s, A.sp, A.c, A.sp, A.c>>,
      <<A.a, A.l, A.i, A.a, A.s, A.sp, A.c, A.sp, A.c, A.d>>,
      <<A.a, A.l, A.i, A.a, A.s, A.sp, A.c, A.sp>> \o EAcute }

\* read_input waits for a key, the line typed and the cursor at its end; no
\* command has been run.
InitAlias ==
    /\ pc = "read"
    /\ raw_mode = TRUE
    /\ pending = <<>>
    /\ history = <<>>
    /\ current_input \in AliasLines
    /\ cursor_pos = Len(current_input)
    /\ history_index = None
    /\ completions = <<>>
    /\ completion_index = None
    /\ completion_prefix = <<>>
    /\ original_input_before_completion = <<>>
    /\ completion_start_pos = 0
    /\ aliases \in ConfigAliasTables
    /\ cwd = StartDir
    /\ config \in Configs
    /\ env_PATH = Some(PathDirs)
    /\ calls = <<>>
    /\ lastKey = "none"
    /\ tabRun = 0
    /\ tabFirst = <<>>
    /\ navRun = <<>>
    /\ arg = <<>>
    /\ ret = <<>>
    /\ keys = 0

NextAlias ==
    \/ \E ch \in Keys : KeyChar(ch)
    \/ KeyEnter
    \/ Execute
    \/ DisplayPrompt

SpecAlias == InitAlias /\ [][NextAlias]_vars

-----------------------------------------------------------------------------
(* The Completion engine of completion.rs, called operation by operation.
   The fields of the struct are the five session variables; current_input and
   cursor_pos are the caller's buffer and cursor, lent to apply.  The
   candidate search of completion.rs is the one of shell.rs
   with config and history as parameters. *)

\* The texts a caller passes as `input`.
EngineInputs ==
    { <<>>, <<A.c>>, <<A.c, A.a>>, <<A.x>> }

\* Completion::new, and the caller's buffer empty.
InitEngine ==
    /\ pc = "engine"
    /\ raw_mode = FALSE
    /\ pending = <<>>
    /\ history = <<>>
    /\ current_input = <<>>
    /\ cursor_pos = 0
    /\ history_index = None
    /\ completions = <<>>
    /\ completion_index = None
    /\ completion_prefix = <<>>
    /\ original_input_before_completion = <<>>
    /\ completion_start_pos = 0
    /\ aliases = InitAliases
    /\ cwd = StartDir
    /\ config = DefaultConfig
    /\ env_PATH = Some(PathDirs)
    /\ calls = <<>>
    /\ lastKey = "none"
    /\ tabRun = 0
    /\ tabFirst = <<>>
    /\ navRun = <<>>
    /\ arg = <<>>
    /\ ret = <<>>
    /\ keys = 0

\* A call of an operation of the engine; what is not part of the struct or
\* of the caller's buffer stays.
EngineCall ==
    /\ pc = "engine"
    /\ UNCHANGED <<environment, raw_mode, pending, history_index, shellEnv, ghost>>

\* Completion::reset
Completion_reset ==
    /\ EngineCall
    /\ reset_completion
    /\ UNCHANGED <<pc, current_input, cursor_pos>>

\* Completion::generate(input, cursor_pos, config, history), the cursor at a
\* character boundary of input.
Completion_generate ==
    /\ EngineCall
    /\ \E input \in EngineInputs : \E cursor \in 0 .. Len(input) :
         /\ IsCharBoundary(input, cursor)
         /\ \E g \in {generate_completions(input, cursor, aliases, history, cwd)} :
                /\ completion_prefix' = g.prefix
                /\ completions' = g.completions
    /\ UNCHANGED <<pc, current_input, cursor_pos, completion_index,
                   original_input_before_completion, completion_start_pos>>

\* Completion::start(input, cursor_pos)
Completion_start ==
    /\ EngineCall
    /\ \E input \in EngineInputs : \E cursor \in 0 .. Len(input) :
         /\ original_input_before_completion' = input
         /\ completion_start_pos' = SaturatingSub(cursor, Len(completion_prefix))
    /\ completion_index' = Some(0)
    /\ UNCHANGED <<pc, current_input, cursor_pos, completions, completion_prefix>>

\* Completion::apply(&mut input, &mut cursor_pos): the snapshot is copied
\* into the caller's buffer, then replace_range substitutes the candidate or
\* panics.
Completion_apply ==
    /\ EngineCall
    /\ IF completion_index # None /\ completion_index[1] < Len(completions)
       THEN /\ IF ReplaceRangePanics(original_input_before_completion,
                                     completion_start_pos,
                                     completion_start_pos + Len(completion_prefix))
               THEN /\ pc' = "panicked"
                    /\ current_input' = original_input_before_completion
                    /\ cursor_pos' = cursor_pos
               ELSE /\ pc' = pc
                    /\ current_input' =
                           ReplaceRange(original_input_before_completion,
                                        completion_start_pos,
                                        completion_start_pos + Len(completion_prefix),
                                        completions[completion_index[1] + 1])
                    /\ cursor_pos' = completion_start_pos
                                     + Len(completions[completion_index[1] + 1])
       ELSE UNCHANGED <<pc, current_input, cursor_pos>>
    /\ UNCHANGED session

\* Completion::cycle_next: `%` panics when the divisor is zero.
Completion_cycle_next ==
    /\ EngineCall
    /\ IF completion_index # None
       THEN IF Len(completions) = 0
            THEN pc' = "panicked" /\ UNCHANGED completion_index
            ELSE /\ pc' = pc
                 /\ completion_index' = Some((completion_index[1] + 1) % Len(completions))
       ELSE UNCHANGED <<pc, completion_index>>
    /\ UNCHANGED <<current_input, cursor_pos, completions, completion_prefix,
                   original_input_before_completion, completion_start_pos>>

NextEngine ==
    \/ Completion_reset
    \/ Completion_generate
    \/ Completion_start
    \/ Completion_apply
    \/ Completion_cycle_next

SpecEngine == InitEngine /\ [][NextEngine]_vars

-----------------------------------------------------------------------------
(* The Completion engine driven as a Tab handler, beside the Shell.  ret holds
   the engine and its caller: the struct e, the caller's buffer and cursor,
   whether a call has panicked, and the number of Tab presses handled. *)

\* Completion::new
Completion_new ==
    [completions |-> <<>>,
     completion_index |-> None,
     completion_prefix |-> <<>>,
     original_input_before_completion |-> <<>>,
     completion_start_pos |-> 0]

\* Completion::generate on the struct e
GenerateOn(e, g) ==
    [e EXCEPT !.completion_prefix = g.prefix, !.completions = g.completions]

\* Completion::start on the struct e
StartOn(e, input, cursor) ==
    [e EXCEPT !.original_input_before_completion = input,
              !.completion_start_pos = SaturatingSub(cursor, Len(e.completion_prefix)),
              !.completion_index = Some(0)]

\* Completion::cycle_next on the struct e with candidates
CycleNextOn(e) ==
    IF e.completion_index # None
    THEN [e EXCEPT !.completion_index = Some((@[1] + 1) % Len(e.completions))]
    ELSE e

\* Completion::apply on the struct e and the caller r: the caller after it.
ApplyOn(e, r) ==
    IF e.completion_index # None /\ e.completion_index[1] < Len(e.completions)
    THEN IF ReplaceRangePanics(e.original_input_before_completion, e.completion_start_pos,
                               e.completion_start_pos + Len(e.completion_prefix))
         THEN [r EXCEPT !.e = e, !.input = e.original_input_before_completion,
                        !.panic = TRUE]
         ELSE [r EXCEPT !.e = e,
                        !.input = ReplaceRange(e.original_input_before_completion,
                                               e.completion_start_pos,
                                               e.completion_start_pos + Len(e.completion_prefix),
                                               e.completions[e.completion_index[1] + 1]),
                        !.cursor = e.completion_start_pos
                                   + Len(e.completions[e.completion_index[1] + 1])]
    ELSE [r EXCEPT !.e = e]

\* The first Tab of the caller r: generate has returned g; start and apply
\* follow if there are candidates.
FirstTabOn(r, g) ==
    IF g.completions = <<>>
    THEN [r EXCEPT !.e = GenerateOn(r.e, g)]
    ELSE ApplyOn(StartOn(GenerateOn(r.e, g), r.input, r.cursor), r)

\* One Tab of the caller r: is_empty() tells the first Tab from a later one.
DriveTab(r, al, hist, dir) ==
    IF r.e.completions = <<>>
    THEN IF ~IsCharBoundary(r.input, r.cursor)
         THEN [r EXCEPT !.panic = TRUE]      \* &input[..cursor_pos] panics
         ELSE FirstTabOn(r, generate_completions(r.input, r.cursor, al, hist, dir))
    ELSE ApplyOn(CycleNextOn(r.e), r)

\* As InitTab, the engine new and its caller holding the same line.
InitEquiv ==
    /\ pc = "read"
    /\ raw_mode = TRUE
    /\ pending = <<>>
    /\ history = <<>>
    /\ current_input \in TabLines
    /\ cursor_pos \in 0 .. MaxTokLen + 4
    /\ cursor_pos <= Len(current_input)
    /\ history_index = None
    /\ completions = <<>>
    /\ completion_index = None
    /\ completion_prefix = <<>>
    /\ original_input_before_completion = <<>>
    /\ completion_start_pos = 0
    /\ aliases = InitAliases
    /\ cwd = StartDir
    /\ config \in Configs
    /\ env_PATH = Some(PathDirs)
    /\ calls = <<>>
    /\ lastKey = "none"
    /\ tabRun = 0
    /\ tabFirst = <<>>
    /\ navRun = <<>>
    /\ arg = <<>>
    /\ ret = [e |-> Completion_new, input |-> current_input, cursor |-> cursor_pos,
              panic |-> FALSE, tabs |-> 0]
    /\ keys = 0

\* The Shell handles a Tab the engine's caller has not seen yet.
ShellTab ==
    /\ ret.tabs = keys
    /\ TabPress

\* The engine's caller handles the Tab the Shell has handled.
EngineTab ==
    /\ ret.tabs < keys
    /\ ~ret.panic
    /\ ret' = [DriveTab(ret, aliases, history, cwd) EXCEPT !.tabs = @ + 1]
    /\ UNCHANGED <<pc, environment, raw_mode, pending, line, session, shellEnv, calls,
                   lastKey, tabRun, tabFirst, navRun, arg, keys>>

NextEquiv ==
    \/ ShellTab
    \/ EngineTab

SpecEquiv == InitEquiv /\ [][NextEquiv]_vars

-----------------------------------------------------------------------------
(* Properties *)

\* run_interactive has returned or the process has ended by one of: Ctrl+C,
\* Ctrl+D on an empty line, a failed key read, a failed draw, a failed error
\* print, the exit builtin.
LoopEnded == pc \in {"done", "err_read", "err_draw", "err_print", "exited"}

\* C1: on every path out of the interactive loop (Ctrl+C, Ctrl+D on an empty
\* line, a failed key read, a failed draw, a failed error print, the exit
\* builtin) the terminal's raw mode has been disabled again.
C1_RawModeReleased == LoopEnded => ~raw_mode

\* C2: in every state reachable by key events and accepted commands,
\* 0 <= cursor_pos <= len(current_input).
C2_CursorInRange == 0 <= cursor_pos /\ cursor_pos <= Len(current_input)

\* A command has been accepted, and Backspace has then left the cursor at the
\* end of a non-empty buffer.
C2_Witness ==
    /\ pc = "read"
    /\ history # <<>>
    /\ lastKey = "Backspace"
    /\ current_input # <<>>
    /\ cursor_pos = Len(current_input)

\* C3: cursor_pos is always a character boundary of current_input.
C3_CursorOnCharBoundary == IsCharBoundary(current_input, cursor_pos)

\* C4: no sequence of key events makes a key handler panic.
C4_NoHandlerPanics == [][keys' = keys + 1 => pc' # "panicked"]_vars

\* No two neighbours of the sequence are equal.
NoAdjacentEqual(seq) == \A i \in 1 .. Len(seq) - 1 : seq[i] # seq[i + 1]

\* A step that passes one command to add_to_history: a command equal to the
\* newest entry leaves history as it is, any other command (one equal to an
\* older entry too) becomes the newest entry.
C5_AppendStep ==
    Len(calls') = Len(calls) + 1 =>
        IF history # <<>> /\ history[Len(history)] = calls'[Len(calls')]
        THEN history' = history
        ELSE history' # <<>> /\ history'[Len(history')] = calls'[Len(calls')]

\* C5: history never holds two equal adjacent entries: appending a command
\* equal to the newest entry leaves history unchanged, while a command equal to
\* an older, non-adjacent entry is still appended.
C5_NoAdjacentDuplicates == [](NoAdjacentEqual(history)) /\ [][C5_AppendStep]_vars

\* Three commands were passed, the third equal to the first and not to the
\* second, and the third is the newest entry.
C5_Witness ==
    /\ Len(calls) = 3
    /\ calls[1] = calls[3]
    /\ calls[2] # calls[3]
    /\ Len(history) >= 2
    /\ history[Len(history)] = calls[3]
    /\ history[Len(history) - 1] = calls[2]

\* The commands that were appended: those passed to add_to_history, without
\* each one that equals the one passed just before it.
RECURSIVE Appended(_)
Appended(cs) ==
    IF Len(cs) <= 1 THEN cs
    ELSE IF cs[Len(cs)] = cs[Len(cs) - 1] THEN Appended(SubSeq(cs, 1, Len(cs) - 1))
    ELSE Append(Appended(SubSeq(cs, 1, Len(cs) - 1)), cs[Len(cs)])

\* The last n elements of seq, all of it when it is shorter.
LastN(seq, n) == SubSeq(seq, (IF Len(seq) > n THEN Len(seq) - n ELSE 0) + 1, Len(seq))

\* C6: history never holds more than history_size entries; the oldest are
\* evicted first, so history is always the most recent appended commands in
\* their original order.
C6_HistoryBounded ==
    /\ Len(history) <= HistorySize
    /\ history = LastN(Appended(calls), HistorySize)

\* More commands were appended than history holds: the oldest is gone.
C6_Witness ==
    /\ Len(Appended(calls)) > HistorySize
    /\ Len(history) = HistorySize
    /\ history[1] # Appended(calls)[1]

\* C7: between two key events, a completion session is active exactly when
\* completions is non-empty; then completion_index is Some(i) with
\* i < len(completions), and when completions is empty it is None.
C7_IndexInRange ==
    pc = "read" =>
        IF completions # <<>>
        THEN completion_index # None /\ completion_index[1] \in 0 .. Len(completions) - 1
        ELSE completion_index = None

\* A session stands on its last candidate: the next Tab wraps around.
C7_Witness ==
    /\ pc = "read"
    /\ Len(completions) >= 2
    /\ completion_index = Some(Len(completions) - 1)

\* C8: whenever completions is empty, completion_prefix and
\* original_input_before_completion are empty and completion_start_pos is 0.
C8_IdleSessionFieldsEmpty ==
    (pc = "read" /\ completions = <<>>) =>
        /\ completion_prefix = <<>>
        /\ original_input_before_completion = <<>>
        /\ completion_start_pos = 0

\* A key handler of one of the kinds Char, Backspace, Delete, Up, Down runs
\* and changes current_input.
EditingKeyChangesInput ==
    /\ keys' = keys + 1
    /\ lastKey' \in {"Char", "Backspace", "Delete", "Up", "Down"}
    /\ current_input' # current_input

\* C9: any key that changes current_input other than Tab (a typed character,
\* Backspace, Delete, Up, Down) ends the completion session.
C9_EditingEndsSession == [][EditingKeyChangesInput => completions' = <<>>]_vars

\* The candidate the k-th Tab in a row selects among those generation g found.
TabCandidate(g, k) == g.completions[((k - 1) % Len(g.completions)) + 1]

\* The buffer S with cand substituted for the Len(p) bytes at a.
Substituted(S, a, p, cand) == Slice(S, 0, a) \o cand \o Slice(S, a + Len(p), Len(S))

\* The buffer and the cursor are what k Tab presses on buffer S, whose
\* generation g found candidates with prefix g.prefix at anchor a, lead to.
AfterTabs(S, a, g, k) ==
    /\ g.completions # <<>>
    /\ current_input = Substituted(S, a, g.prefix, TabCandidate(g, k))
    /\ cursor_pos = a + Len(TabCandidate(g, k))

\* C10: if Tab on buffer S with the cursor at c yields n >= 1 candidates with
\* prefix p and anchor a, then after k >= 1 consecutive Tab presses the buffer
\* is S with the candidate at index (k-1) mod n substituted for the Len(p)
\* bytes at a, and cursor_pos = a + the length of that candidate.
C10_TabCycles ==
    tabRun >= 1 =>
        AfterTabs(tabFirst[1],
                  SaturatingSub(tabFirst[2],
                                Len(generate_completions(tabFirst[1], tabFirst[2], aliases,
                                                         history, cwd).prefix)),
                  generate_completions(tabFirst[1], tabFirst[2], aliases, history, cwd),
                  tabRun)

\* Tab was pressed more often than there are candidates, on a non-empty
\* prefix: the cycle has wrapped around to the first candidate.
C10_Witness ==
    /\ tabRun > Len(completions)
    /\ Len(completions) >= 2
    /\ completion_prefix # <<>>
    /\ completion_index = Some(0)

\* The entry shown, the cursor at its end.
ShowsEntry(i) ==
    /\ history_index = Some(i)
    /\ current_input = history[i + 1]
    /\ cursor_pos = Len(history[i + 1])

\* C11: with a history of n >= 1 entries, an empty buffer and no browsing in
\* progress, the i-th Up shows entry n-i, each Down before the last shows the
\* next newer entry, and after n Up and n Down presses the buffer is empty,
\* the cursor 0 and history_index None.
C11_UpDownRoundTrip ==
    navRun # <<>> =>
        IF navRun.downs = 0 THEN ShowsEntry(Len(history) - navRun.ups)
        ELSE IF navRun.downs < Len(history) THEN ShowsEntry(navRun.downs)
        ELSE current_input = <<>> /\ cursor_pos = 0 /\ history_index = None

\* Two entries or more were browsed up to the oldest and down again.
C11_Witness ==
    /\ navRun # <<>>
    /\ Len(history) >= 2
    /\ navRun.ups = Len(history)
    /\ navRun.downs = Len(history)
    /\ pc = "read"

\* The text ends in a space.
EndsInSpace(text) == text # <<>> /\ text[Len(text)] = 32

\* r classifies the text before the cursor, whose token list is toks, the way
\* the rule says.
ClassifiedAs(text, toks, r) ==
    IF toks = <<>> \/ (Len(toks) = 1 /\ ~EndsInSpace(text))
    THEN r.mode = "command" /\ r.prefix = (IF toks = <<>> THEN <<>> ELSE toks[1])
    ELSE r.mode = "path" /\ r.prefix = (IF EndsInSpace(text) THEN <<>> ELSE toks[Len(toks)])

\* The call was made on all of the buffer input.
WholeLine(input) == arg.input = input /\ arg.cursor = Len(input)

\* C12: if the token list of the buffer slice before the cursor is empty, or
\* it has exactly one token and the slice does not end in a space, the mode is
\* command and the prefix is that token (or the empty string); otherwise the
\* mode is path and the prefix is the last token, or the empty string when the
\* slice ends in a space.  "ls " gives path mode with prefix "", "ls /tm" path
\* mode with prefix "/tm", "ec" command mode with prefix "ec".
C12_Classification ==
    Returned("generate_completions") =>
        /\ ClassifiedAs(Slice(arg.input, 0, arg.cursor),
                        parse_command(Slice(arg.input, 0, arg.cursor)), ret[1])
        /\ WholeLine(<<A.l, A.s, A.sp>>) => ret[1].mode = "path" /\ ret[1].prefix = <<>>
        /\ WholeLine(<<A.l, A.s, A.sp, A.slash, A.t, 109>>) =>
               ret[1].mode = "path" /\ ret[1].prefix = <<A.slash, A.t, 109>>
        /\ WholeLine(<<A.e, A.c>>) => ret[1].mode = "command" /\ ret[1].prefix = <<A.e, A.c>>

\* "ls " has been classified.
C12_Witness ==
    /\ Returned("generate_completions")
    /\ WholeLine(<<A.l, A.s, A.sp>>)
    /\ ret[1].mode = "path"

\* s comes before t in lexicographic order of bytes.
LexLess(s, t) ==
    \E k \in 1 .. Len(t) :
        /\ k <= Len(s) + 1
        /\ \A j \in 1 .. k - 1 : s[j] = t[j]
        /\ (k = Len(s) + 1 \/ s[k] < t[k])

\* The names of the four sources: built-ins, alias keys, executable regular
\* files of the PATH directories, first tokens of history entries.
CommandNames(path_var, al, hist, dir) ==
    { Builtins[i] : i \in 1 .. Len(Builtins) }
    \cup DOMAIN al
    \cup (IF path_var = None THEN {}
          ELSE UNION { { EntryName(f) : f \in { g \in ReadDir(dir, path_var[1][k]).entries :
                                                  g.kind = "file" /\ g.exec } } :
                       k \in 1 .. Len(path_var[1]) })
    \cup { parse_command(hist[k])[1] : k \in { j \in 1 .. Len(hist) : parse_command(hist[j]) # <<>> } }

\* C13: the command-mode candidate list is strictly ascending in lexicographic
\* order, every candidate starts with the prefix, and it holds exactly the
\* names that start with the prefix among the built-ins, the alias keys, the
\* executable regular files of the PATH directories and the first tokens of
\* history entries, each once.
C13_CommandCandidates ==
    Returned("get_command_completions") =>
        /\ \A i \in 1 .. Len(ret[1]) - 1 : LexLess(ret[1][i], ret[1][i + 1])
        /\ \A i \in 1 .. Len(ret[1]) : StartsWith(ret[1][i], arg.prefix)
        /\ { ret[1][i] : i \in 1 .. Len(ret[1]) } =
               { name \in CommandNames(arg.path_var, arg.aliases, arg.history, arg.dir) :
                   StartsWith(name, arg.prefix) }

\* "cat" is an alias, a file of two PATH directories and a command of the
\* history, and is one of the candidates for "c".
C13_Witness ==
    /\ Returned("get_command_completions")
    /\ arg.prefix = <<A.c>>
    /\ arg.path_var = Some(PathDirs)
    /\ <<A.c, A.a, A.t>> \in DOMAIN arg.aliases
    /\ \E k \in 1 .. Len(arg.history) : arg.history[k] = <<A.c, A.a, A.t>>
    /\ \E i \in 1 .. Len(ret[1]) : ret[1][i] = <<A.c, A.a, A.t>>

\* The candidates returned, as a set.
Candidates == { ret[1][i] : i \in 1 .. Len(ret[1]) }

\* C14: in a directory that holds the dot-file .b and the file n, the path
\* prefix "" yields n and not .b, and the prefix "." yields .b (and any other
\* dot-entry) but not n.
C14_HiddenFiles ==
    (Returned("get_path_completions") /\ arg.dir = StartDir) =>
        /\ arg.prefix = <<>> => (<<A.n>> \in Candidates /\ <<A.dot, A.b>> \notin Candidates)
        /\ arg.prefix = <<A.dot>> =>
               (<<A.dot, A.b>> \in Candidates /\ <<A.n>> \notin Candidates)

\* Tab is pressed while no session is active, and generation returns no
\* candidate.
TabFindsNothing ==
    /\ keys' = keys + 1
    /\ lastKey' = "Tab"
    /\ completions = <<>>
    /\ IsCharBoundary(current_input, cursor_pos)
    /\ generate_completions(current_input, cursor_pos, aliases, history, cwd).completions = <<>>

\* C15: a Tab press for which generation finds no candidate is a no-op that
\* raises no error: buffer, cursor and history_index are unchanged and no
\* completion session becomes active.
C15_TabWithoutCandidates ==
    [][TabFindsNothing =>
           /\ pc' = "read"
           /\ current_input' = current_input
           /\ cursor_pos' = cursor_pos
           /\ history_index' = history_index
           /\ completions' = <<>>
           /\ completion_index' = None]_vars

\* Tab was pressed on "ca" while PATH is not set: nothing was found, where
\* the directories of PATH would have given a candidate.
C15_Witness ==
    /\ pc = "read"
    /\ lastKey = "Tab"
    /\ completions = <<>>
    /\ completion_index = None
    /\ env_PATH = None
    /\ completion_prefix = <<A.c, A.a>>
    /\ current_input = <<A.c, A.a>>
    /\ cursor_pos = 2
    /\ CommandCompletionsOn(Some(PathDirs), <<A.c, A.a>>, aliases, history, cwd) # <<>>

\* The handler of key runs.
KeyStep(key) == keys' = keys + 1 /\ lastKey' = key

\* C16: Ctrl+D ends the interactive loop if and only if the buffer is empty
\* at that moment; with a non-empty buffer it is ignored: buffer, cursor,
\* history_index and the completion session are unchanged and the loop keeps
\* reading keys.
C16_CtrlD ==
    [][KeyStep("CtrlD") =>
           IF current_input = <<>>
           THEN pc' = "break"
           ELSE pc' = "read" /\ UNCHANGED <<line, session>>]_vars

\* Ctrl+D was pressed during a completion session, on the candidate shown:
\* the session goes on.
C16_Witness ==
    /\ lastKey = "CtrlD"
    /\ pc = "read"
    /\ current_input # <<>>
    /\ completions # <<>>
    /\ completion_index # None

\* The line is as reset_input leaves it.
LineIsReset ==
    /\ current_input = <<>>
    /\ cursor_pos = 0
    /\ history_index = None
    /\ completions = <<>>
    /\ completion_index = None

\* C17: Enter emits exactly the current buffer content as the accepted command
\* without changing any engine state itself; before the next key is read the
\* caller has reset the line, whether execution succeeded or returned an
\* error: buffer empty, cursor 0, history_index None, no completion session.
C17_EnterThenReset ==
    /\ [][KeyStep("Enter") => (pending' = current_input /\ UNCHANGED <<line, session>>)]_vars
    /\ []((pc = "read" /\ lastKey = "Enter") => LineIsReset)

\* The command c was accepted and run, the prompt was shown again and the
\* next key is awaited.
C17_Witness ==
    /\ pc = "read"
    /\ lastKey = "Enter"
    /\ calls # <<>>
    /\ calls[Len(calls)] = <<A.c>>
    /\ LineIsReset

\* What each character of s is, from character i on: "L" a literal character
\* of a token, "S" a separator, "D" a quote that opens or closes or a
\* backslash that escapes.  quote is the open quote character, 0 outside
\* quotes; esc says that the character before was an escaping backslash.
RECURSIVE MarksFrom(_, _, _, _)
MarksFrom(s, i, quote, esc) ==
    IF i > Len(s) THEN <<>>
    ELSE IF esc THEN <<"L">> \o MarksFrom(s, i + 1, quote, FALSE)
    ELSE IF s[i] = 92 THEN <<"D">> \o MarksFrom(s, i + 1, quote, TRUE)
    ELSE IF quote = 0 /\ s[i] \in {34, 39} THEN <<"D">> \o MarksFrom(s, i + 1, s[i], FALSE)
    ELSE IF quote # 0 /\ s[i] = quote THEN <<"D">> \o MarksFrom(s, i + 1, 0, FALSE)
    ELSE IF quote = 0 /\ s[i] \in {32, 9} THEN <<"S">> \o MarksFrom(s, i + 1, 0, FALSE)
    ELSE <<"L">> \o MarksFrom(s, i + 1, quote, FALSE)

\* The non-empty runs of literal characters between separators, from
\* character i on; cur is the run so far.
RECURSIVE RunsFrom(_, _, _, _)
RunsFrom(s, marks, i, cur) ==
    IF i > Len(s) THEN (IF cur # <<>> THEN <<cur>> ELSE <<>>)
    ELSE IF marks[i] = "S"
    THEN (IF cur # <<>> THEN <<cur>> ELSE <<>>) \o RunsFrom(s, marks, i + 1, <<>>)
    ELSE IF marks[i] = "L" THEN RunsFrom(s, marks, i + 1, Append(cur, s[i]))
    ELSE RunsFrom(s, marks, i + 1, cur)

\* C18: outside quotes, spaces and tabs separate tokens; a quote character
\* opens quoting and only the same character closes it, neither being part of
\* the token; whitespace inside quotes and any character after a backslash are
\* literal.  tokenize("") is empty, tokenize("a b") = ["a","b"],
\* tokenize("'a b' c") = ["a b","c"], and a, backslash, space, b gives ["a b"].
C18_Tokenizer ==
    Returned("parse_command") =>
        /\ ret[1] = RunsFrom(arg.input, MarksFrom(arg.input, 1, 0, FALSE), 1, <<>>)
        /\ arg.input = <<>> => ret[1] = <<>>
        /\ arg.input = <<97, 32, 98>> => ret[1] = << <<97>>, <<98>> >>
        /\ arg.input = <<39, 97, 32, 98, 39, 32, 99>> => ret[1] = << <<97, 32, 98>>, <<99>> >>
        /\ arg.input = <<97, 92, 32, 98>> => ret[1] = << <<97, 32, 98>> >>

\* "'a b' c" has been tokenized.
C18_Witness ==
    /\ Returned("parse_command")
    /\ arg.input = <<39, 97, 32, 98, 39, 32, 99>>
    /\ Len(ret[1]) = 2

\* C19: with more than 10 candidates the summary window has exactly 10
\* consecutive entries, lies inside the candidate list and contains the
\* selected candidate; it starts at 0 when the selection is within the first
\* half-window, ends at the last index when the selection is within the last
\* half-window, and otherwise starts 5 before the selection.
C19_SummaryWindow ==
    (Returned("show_completion_info") /\ arg.n > 10) =>
        /\ Len(ret[1].rows) = 10
        /\ \A k \in 1 .. 9 : ret[1].rows[k + 1] = ret[1].rows[k] + 1
        /\ \A k \in 1 .. 10 : ret[1].rows[k] \in 0 .. arg.n - 1
        /\ \E k \in 1 .. 10 : ret[1].rows[k] = arg.index[1]
        /\ IF arg.index[1] < 5 THEN ret[1].rows[1] = 0
           ELSE IF arg.index[1] >= arg.n - 5 THEN ret[1].rows[10] = arg.n - 1
           ELSE ret[1].rows[1] = arg.index[1] - 5

\* Thirteen candidates, the selection in the middle: the window starts five
\* before it and ends before the last candidate.
C19_Witness ==
    /\ Returned("show_completion_info")
    /\ arg.n = 13
    /\ arg.index = Some(6)
    /\ ret[1].rows[1] = 1
    /\ ret[1].rows[10] = 10

\* C20: whenever history is browsed (history_index = Some(i)) the buffer
\* mirrors entry i: between two key events, history_index = Some(i) implies
\* current_input = history[i].
C20_BufferMirrorsEntry ==
    (pc = "read" /\ history_index # None) =>
        /\ history_index[1] < Len(history)
        /\ current_input = history[history_index[1] + 1]

\* The offset at which the last token of text begins, as text is written:
\* the offset after its last separator, given what each character is.
RawTokenStart(text, marks) ==
    IF \E i \in 1 .. Len(text) : marks[i] = "S"
    THEN CHOOSE i \in 1 .. Len(text) :
             marks[i] = "S" /\ \A j \in i + 1 .. Len(text) : marks[j] # "S"
    ELSE 0

\* C21: when a completion session starts, the anchor is the buffer offset
\* where the prefix begins: the replaced range [anchor, anchor + len(prefix))
\* covers exactly the token being completed as it is written before the
\* cursor, also when it is written with quotes or backslash escapes.
C21_AnchorAtTokenStart ==
    tabRun = 1 =>
        /\ completion_start_pos + Len(completion_prefix) = tabFirst[2]
        /\ completion_start_pos =
               RawTokenStart(Slice(tabFirst[1], 0, tabFirst[2]),
                             MarksFrom(Slice(tabFirst[1], 0, tabFirst[2]), 1, 0, FALSE))

\* C22: out-of-range history navigation is a no-op: Up while browsing at
\* index 0, Down while not browsing, and Up or Down with an empty history each
\* leave buffer, cursor, history_index and the completion session unchanged.
C22_OutOfRangeNavigation ==
    [][((KeyStep("Up") /\ (history = <<>> \/ history_index = Some(0)))
        \/ (KeyStep("Down") /\ (history = <<>> \/ history_index = None)))
       => (pc' = "read" /\ UNCHANGED <<line, session>>)]_vars

\* Down was pressed during a completion session while no entry was shown,
\* the history holding an entry: the session and the candidate stay.
C22_Witness ==
    /\ pc = "read"
    /\ lastKey = "Down"
    /\ history # <<>>
    /\ history_index = None
    /\ completions # <<>>
    /\ current_input # <<>>

\* C23: Down while browsing at the newest index (len-1) stops browsing:
\* history_index becomes None, the buffer empty and the cursor 0; Down at an
\* index i < len-1 moves to i+1 instead; a history of length 1 takes the stop
\* branch.
C23_DownAtNewest ==
    [][(KeyStep("Down") /\ history_index # None) =>
           IF history_index[1] = Len(history) - 1
           THEN history_index' = None /\ current_input' = <<>> /\ cursor_pos' = 0
           ELSE history_index' = Some(history_index[1] + 1)]_vars

\* With one entry in history, Up and then Down: browsing has stopped.
C23_Witness ==
    /\ Len(history) = 1
    /\ navRun # <<>>
    /\ navRun.ups = 1
    /\ navRun.downs = 1
    /\ history_index = None
    /\ current_input = <<>>

\* C24: immediately after every Up or Down that enters browsing or moves
\* within it to index j, the buffer equals history[j] and the cursor equals
\* the length of that text, whatever the buffer and cursor were before.
C24_ShowsEntryAtEnd ==
    [][((KeyStep("Up") \/ KeyStep("Down"))
        /\ history_index' # None /\ history_index' # history_index)
       => /\ history_index'[1] < Len(history)
          /\ current_input' = history[history_index'[1] + 1]
          /\ cursor_pos' = Len(history[history_index'[1] + 1])]_vars

\* Up was pressed on a line with typed text, the history holding two entries
\* or more: the newest entry has replaced the text.
C24_Witness ==
    /\ lastKey = "Up"
    /\ Len(history) >= 2
    /\ history_index = Some(Len(history) - 1)
    /\ navRun = <<>>
    /\ current_input = history[Len(history)]
    /\ cursor_pos = Len(current_input)

\* The string s without the one character that begins at byte offset i.
WithoutCharAt(s, i, t) ==
    \E w \in 1 .. 4 :
        /\ i + w <= Len(s)
        /\ t = Slice(s, 0, i) \o Slice(s, i + w, Len(s))

\* C25: the editing keys act on a single character at the cursor and end any
\* completion session: Char c turns buffer b with cursor p into
\* b[0..p) c b[p..] with cursor p+1; Backspace with p > 0 removes b[p-1] and
\* sets the cursor to p-1; Delete with p < len removes b[p] and keeps the
\* cursor; Backspace at p = 0 and Delete at p = len leave buffer and cursor
\* unchanged; after each of them no completion session is active.
C25_EditingKeys ==
    [][/\ KeyStep("Char") =>
            /\ \E ch \in Keys :
                   current_input' = Slice(current_input, 0, cursor_pos) \o ch
                                    \o Slice(current_input, cursor_pos, Len(current_input))
            /\ cursor_pos' = cursor_pos + 1
            /\ completions' = <<>> /\ completion_index' = None
       /\ KeyStep("Backspace") =>
            /\ IF cursor_pos > 0
               THEN /\ WithoutCharAt(current_input, cursor_pos - 1, current_input')
                    /\ cursor_pos' = cursor_pos - 1
               ELSE UNCHANGED <<current_input, cursor_pos>>
            /\ completions' = <<>> /\ completion_index' = None
       /\ KeyStep("Delete") =>
            /\ IF cursor_pos < Len(current_input)
               THEN /\ WithoutCharAt(current_input, cursor_pos, current_input')
                    /\ cursor_pos' = cursor_pos
               ELSE UNCHANGED <<current_input, cursor_pos>>
            /\ completions' = <<>> /\ completion_index' = None]_vars

NavigationKeys == {"Left", "Right", "Home", "End"}

\* C26: Left, Right, Home and End are pure navigation: they change only the
\* cursor (by one position within bounds, or to 0 / to the buffer length) and
\* leave the buffer, history_index and the completion session unchanged, so a
\* Tab pressed after them during an active session cycles to the next
\* candidate rather than starting a new session.
C26_PureNavigation ==
    [][/\ (\E k \in NavigationKeys : KeyStep(k)) =>
              UNCHANGED <<current_input, history_index, session, shellEnv>>
       /\ KeyStep("Left") =>
              cursor_pos' = IF cursor_pos > 0 THEN cursor_pos - 1 ELSE cursor_pos
       /\ KeyStep("Right") =>
              cursor_pos' = IF cursor_pos < Len(current_input)
                            THEN cursor_pos + 1 ELSE cursor_pos
       /\ (KeyStep("Home") /\ pc' = "read") => cursor_pos' = 0
       /\ (KeyStep("End") /\ pc' = "read") => cursor_pos' = Len(current_input)
       /\ (KeyStep("Tab") /\ lastKey \in NavigationKeys /\ completions # <<>>) =>
              /\ completion_index # None
              /\ completion_index' =
                     Some((completion_index[1] + 1) % Len(completions))
              /\ UNCHANGED <<completions, completion_prefix,
                             original_input_before_completion, completion_start_pos>>]_vars

\* Home was pressed during a completion session: the cursor is at 0 and the
\* session, its candidate still in the buffer, is as the Tab left it.
C26_Witness ==
    /\ pc = "read"
    /\ lastKey = "Home"
    /\ completions # <<>>
    /\ completion_index = Some(0)
    /\ cursor_pos = 0
    /\ current_input # <<>>

\* C27: execute_command terminates for every alias table: resolving an
\* accepted command through aliases always reaches a built-in or external
\* command after finitely many expansions, including when an alias maps a
\* name to itself or two aliases refer to each other.
C27_AliasResolutionEnds == pc # "crashed"

\* cycle_next has divided by a candidate count of zero.
RemainderByZero == completion_index # None /\ Len(completions) = 0

\* apply has replaced a range that is no range of the snapshot.
RangeOutsideSnapshot ==
    /\ completion_index # None
    /\ completion_index[1] < Len(completions)
    /\ ReplaceRangePanics(original_input_before_completion, completion_start_pos,
                          completion_start_pos + Len(completion_prefix))

\* C28: no sequence of calls to the Completion engine's public operations
\* (new, generate, start, apply, cycle_next, reset) makes cycle_next or apply
\* fail: cycle_next never computes a remainder by a candidate count of zero
\* and apply never replaces a range outside the snapshot, also when start is
\* called after generate produced no candidates or without generate.
C28_EngineNeverFails ==
    ~(/\ pc = "panicked"
      /\ \/ RemainderByZero
         \/ RangeOutsideSnapshot)

\* C29: in every state in which a key event can be handled, if history_index
\* is Some(i) then i < history.len(); appends and evictions performed while a
\* command is accepted never leave a stale index for the next line.  The
\* index is in range in the states between two key events and in those
\* between the acceptance of a command and the next prompt as well.
C29_HistoryIndexInRange ==
    history_index # None => history_index[1] < Len(history)

\* Commands were appended until the oldest was evicted, and Up on the next
\* line shows the newest entry of the full history.
C29_Witness ==
    /\ pc = "read"
    /\ lastKey = "Up"
    /\ Len(Appended(calls)) > HistorySize
    /\ Len(history) = HistorySize
    /\ history_index = Some(HistorySize - 1)

\* The last n bytes of s.
Suffix(s, n) == Slice(s, Len(s) - n, Len(s))

\* C30: completion never alters text outside the completed token: if a
\* session starts on buffer S with cursor c, then after any number of Tab
\* presses the buffer ends with S[c..] (the text that was after the cursor)
\* and begins with S[0 .. anchor), and the cursor sits exactly between the
\* inserted candidate and S[c..].
C30_TextOutsideTokenKept ==
    tabRun >= 1 =>
        LET S == tabFirst[1]
            c == tabFirst[2]
        IN  /\ completion_index # None
            /\ completion_index[1] < Len(completions)
            /\ Len(current_input) >= completion_start_pos + (Len(S) - c)
            /\ Suffix(current_input, Len(S) - c) = Slice(S, c, Len(S))
            /\ Slice(current_input, 0, completion_start_pos) = Slice(S, 0, completion_start_pos)
            /\ cursor_pos = Len(current_input) - (Len(S) - c)
            /\ Slice(current_input, completion_start_pos, cursor_pos)
                   = completions[completion_index[1] + 1]

\* Tab was pressed twice with text on both sides of the completed token: the
\* second candidate stands between the two.
C30_Witness ==
    /\ tabRun = 2
    /\ completion_index = Some(1)
    /\ completion_start_pos > 0
    /\ tabFirst[2] < Len(tabFirst[1])
    /\ cursor_pos < Len(current_input)

\* The engine's caller and the Shell have handled the same Tab presses, and
\* neither has panicked.
BothHandled == ret.tabs = keys /\ pc # "panicked" /\ ~ret.panic

\* C31: the standalone Completion engine and the Shell's inlined completion
\* logic are equivalent: for the same buffer, cursor and candidate list,
\* driving Completion with generate, then (if candidates exist) start and
\* apply on the first Tab and cycle_next and apply on each later Tab, produces
\* after every Tab the same buffer, cursor, selected index, prefix, anchor and
\* snapshot as Shell::handle_tab_completion.
C31_EngineMatchesShell ==
    BothHandled =>
        /\ ret.input = current_input
        /\ ret.cursor = cursor_pos
        /\ ret.e.completions = completions
        /\ ret.e.completion_index = completion_index
        /\ ret.e.completion_prefix = completion_prefix
        /\ ret.e.completion_start_pos = completion_start_pos
        /\ ret.e.original_input_before_completion = original_input_before_completion

\* C32: accepting one command line with Enter grows the history by at most
\* one entry, and that entry is the trimmed accepted text; a line that is
\* empty or only whitespace leaves the history unchanged.
C32_OneEntryPerLine ==
    [][(pc = "exec" /\ pc' # "exec") =>
           IF Trim(pending) = <<>>
           THEN history' = history
           ELSE \/ history' = history
                \/ history' = LastN(Append(history, Trim(pending)), HistorySize)]_vars

====
